---- MODULE Spec2Model ----
(***************************************************************************)
(* Admission control and memoization layer of newschecker:                 *)
(*   RateLimiter  (src/src/newschecker/utils/rate_limiting.py)             *)
(*   NewsCache    (src/src/newschecker/core/cache.py)                      *)
(*                                                                         *)
(* Time is the integer number of seconds read from time.time().  Dicts are *)
(* functions whose DOMAIN is the set of keys present, deques are           *)
(* sequences.  The statistics counters of RateLimiter.stats are written    *)
(* but never read by is_allowed and are left out.                          *)
(***************************************************************************)
EXTENDS Integers, Sequences, FiniteSets, TLC

VARIABLES
    now,                \* the clock: the value time.time() returns
    user_operations,    \* RateLimiter.user_operations: user -> operation -> deque
    global_operations,  \* RateLimiter.global_operations: operation -> deque
    last_cleanup,       \* RateLimiter.last_cleanup
    operation_limits,   \* RateLimiter.operation_limits
    global_limits,      \* RateLimiter.global_limits
    vip_users,          \* RateLimiter.vip_users
    last,               \* the most recent is_allowed call and the dict it returned
    denials,            \* history: per (user, operation) the latest denial since
                        \* the last admission of that operation
    lock,               \* RateLimiter.lock: 0 when free, else the holding thread
    cache_lock,         \* NewsCache.lock: 0 when free, else the holding thread
    pc,                 \* per thread: its position inside is_allowed
    frame,              \* per thread: the local variables of its is_allowed call
    cache,              \* NewsCache.cache: key -> entry
    access_times,       \* NewsCache.access_times, in insertion order
    memory_usage_bytes, \* NewsCache.cache_stats['memory_usage_bytes']
    last_sweep,         \* when the cleanup thread last went to sleep
    cache_last,         \* the most recent NewsCache call: its key, the value
                        \* it returned and the return statement it took
    stats_added,        \* what the most recent NewsCache call or cleanup round
                        \* added to the counters of NewsCache.cache_stats
    heap                \* the mutable objects (dicts) of the callers: object
                        \* id -> its JSON text now; a value that is an object
                        \* id is a reference to that object

limiterVars == <<user_operations, global_operations, last_cleanup,
                 operation_limits, global_limits, vip_users, last>>
threadVars == <<lock, cache_lock, pc, frame>>
cacheVars == <<cache, access_times, memory_usage_bytes, last_sweep, cache_last,
               stats_added, heap>>
vars == <<now, limiterVars, denials, threadVars, cacheVars>>

(***************************************************************************)
(* Bounds of the model and program constants.                              *)
(***************************************************************************)
\* rate_limiting.py:49 and :25
window_size == 60
cleanup_interval == 300

\* The limit tables and the VIP multiplier of __init__ (rate_limiting.py:29-45),
\* scaled down so that every limit is reached inside the bounds.
TextLimit == 1
GeneralLimit == 3
GlobalTextLimit == 2
GlobalGeneralLimit == 4
vip_multiplier == 2

\* The clock advances by a short step or by one cleanup interval, at most
\* MaxTicks times.
TickStep == 20
MaxTicks == 3

\* The clock of the cache advances at most MaxCacheTicks times.
MaxCacheTicks == 2

\* The limits of the bot's operations (rate_limiting.py:29-34), scaled down:
\* a text takes two checks of text_analysis, a link one of each.
BotTextLimit == 2
BotUrlLimit == 1

\* NewsCache.max_memory_bytes (cache.py:49), scaled down to a few values.
max_memory_bytes == 10
\* time.sleep(300) of the cleanup thread (cache.py:61)
sweep_interval == 300

Users == {1, 2}
\* The threads that call is_allowed concurrently.
NumThreads == 2
Threads == 1..NumThreads
Operations == {"text_analysis"}
NoOperation == "none"

InitOperationLimits == [text_analysis |-> TextLimit, general |-> GeneralLimit]
InitGlobalLimits == [text_analysis |-> GlobalTextLimit, general |-> GlobalGeneralLimit]

\* The tables update_limits is called with; EmptyDict stands for None or {}.
EmptyDict == [k \in {} |-> 0]
OperationLimitUpdates ==
    {EmptyDict, [text_analysis |-> 1], [text_analysis |-> TextLimit],
     [general |-> GeneralLimit + 1]}
GlobalLimitUpdates ==
    {EmptyDict, [text_analysis |-> 1], [text_analysis |-> GlobalTextLimit]}

(***************************************************************************)
(* Helpers for dicts and deques.                                           *)
(***************************************************************************)
Restrict(f, S) == [k \in S |-> f[k]]

\* dict.get(key, default)
DictGet(d, k, default) == IF k \in DOMAIN d THEN d[k] ELSE default

\* dict.update(other)
DictUpdate(d, other) ==
    [k \in DOMAIN d \cup DOMAIN other |-> IF k \in DOMAIN other THEN other[k] ELSE d[k]]

\* defaultdict(deque)[k]: reading a missing key inserts an empty deque
TouchQueue(d, k) == [x \in DOMAIN d \cup {k} |-> IF x \in DOMAIN d THEN d[x] ELSE <<>>]

\* defaultdict(lambda: defaultdict(deque))[u][o]
TouchUser(uo, u, o) ==
    [x \in DOMAIN uo \cup {u} |->
        IF x = u THEN TouchQueue(DictGet(uo, u, EmptyDict), o) ELSE uo[x]]

\* while queue and queue[0] < cutoff_time: queue.popleft()
RECURSIVE PopOld(_, _)
PopOld(queue, cutoff_time) ==
    IF queue # <<>> /\ Head(queue) < cutoff_time
    THEN PopOld(Tail(queue), cutoff_time)
    ELSE queue

\* Mutant of InWindow: a timestamp exactly at the cutoff is counted.
InWindow_Closed(queue, cutoff_time) == {i \in 1..Len(queue) : queue[i] >= cutoff_time}

\* sum(1 for timestamp in queue if timestamp > cutoff_time)
InWindow(queue, cutoff_time) == {i \in 1..Len(queue) : queue[i] > cutoff_time}
\* Mutant of CountInWindow: every timestamp stored counts until it is swept.
CountInWindow_Stored(queue, cutoff_time) == Len(queue)

CountInWindow(queue, cutoff_time) == Cardinality(InWindow(queue, cutoff_time))

\* min((t for t in queue if t > cutoff_time), default=current_time)
OldestInWindow(queue, cutoff_time, current_time) ==
    IF InWindow(queue, cutoff_time) = {}
    THEN current_time
    ELSE LET ts == {queue[i] : i \in InWindow(queue, cutoff_time)}
         IN  CHOOSE t \in ts : \A s \in ts : t <= s

Max(a, b) == IF a >= b THEN a ELSE b

UserQueue(uo, u, o) == DictGet(DictGet(uo, u, EmptyDict), o, <<>>)
GlobalQueue(go, o) == DictGet(go, o, <<>>)

(***************************************************************************)
(* RateLimiter: pure parts of is_allowed.                                  *)
(***************************************************************************)
NoDenial == [time |-> -1, reason |-> "none", follows |-> FALSE]
\* Before the first call: no user (0), no operation.
NoCall == [user |-> 0, operation |-> NoOperation, time |-> 0,
           result |-> [allowed |-> FALSE, reason |-> "no_call"]]
NoFrame == [user |-> 0, operation |-> NoOperation, current_time |-> 0,
            user_limit |-> 0, user_requests_in_window |-> 0,
            global_limit |-> 0, global_requests_in_window |-> 0]

is_vip_user(user_id) == user_id \in vip_users

\* Mutant of get_user_limit: the VIP multiplier is not applied.
get_user_limit_NoVip(user_id, operation) ==
    DictGet(operation_limits, operation, operation_limits["general"])

\* base_limit = operation_limits.get(operation, operation_limits['general'])
get_user_limit(user_id, operation) ==
    LET base_limit == DictGet(operation_limits, operation, operation_limits["general"])
    IN  IF is_vip_user(user_id) THEN base_limit * vip_multiplier ELSE base_limit

get_global_limit(operation) ==
    DictGet(global_limits, operation, global_limits["general"])

\* The two loops of _cleanup_old_entries over user_operations and
\* global_operations: old timestamps popped, empty queues and users deleted.
\* Mutant of CleanUserOperations: users whose queues all emptied are kept.
CleanUserOperations_KeepsEmpty(uo, cutoff_time) ==
    [u \in DOMAIN uo |->
        LET d == [o \in DOMAIN uo[u] |-> PopOld(uo[u][o], cutoff_time)]
        IN  Restrict(d, {o \in DOMAIN d : d[o] # <<>>})]

CleanUserOperations(uo, cutoff_time) ==
    LET popped == [u \in DOMAIN uo |->
                     LET d == [o \in DOMAIN uo[u] |-> PopOld(uo[u][o], cutoff_time)]
                     IN  Restrict(d, {o \in DOMAIN d : d[o] # <<>>})]
    IN  Restrict(popped, {u \in DOMAIN popped : DOMAIN popped[u] # {}})

CleanGlobalOperations(go, cutoff_time) ==
    LET popped == [o \in DOMAIN go |-> PopOld(go[o], cutoff_time)]
    IN  Restrict(popped, {o \in DOMAIN popped : popped[o] # <<>>})

\* if current_time - self.last_cleanup < self.cleanup_interval: return
CleanupDue(current_time, lc) == ~(current_time - lc < cleanup_interval)

cleanup_old_entries(uo, go, lc, current_time) ==
    IF CleanupDue(current_time, lc)
    THEN [user_operations |-> CleanUserOperations(uo, current_time - window_size),
          global_operations |-> CleanGlobalOperations(go, current_time - window_size),
          last_cleanup |-> current_time]
    ELSE [user_operations |-> uo, global_operations |-> go, last_cleanup |-> lc]

\* Mutant of UserLimitReached: the comparison off by one.
UserLimitReached_Strict(user_requests_in_window, user_limit) ==
    user_requests_in_window > user_limit

\* if user_requests_in_window >= user_limit
UserLimitReached(user_requests_in_window, user_limit) ==
    user_requests_in_window >= user_limit

\* Mutant of GlobalLimitReached: the comparison off by one.
GlobalLimitReached_Strict(global_requests_in_window, global_limit) ==
    global_requests_in_window > global_limit

\* if global_requests_in_window >= global_limit
GlobalLimitReached(global_requests_in_window, global_limit) ==
    global_requests_in_window >= global_limit

\* Mutant of RetryAfter: the age of the oldest timestamp instead of the time
\* it has left in the window.
RetryAfter_Age(queue, current_time) ==
    LET oldest_in_window ==
            OldestInWindow(queue, current_time - window_size, current_time)
    IN  Max(0, current_time - oldest_in_window)

\* Mutant of RetryAfter: measured from the newest timestamp of the window.
RetryAfter_Newest(queue, current_time) ==
    LET ts == {queue[i] : i \in InWindow(queue, current_time - window_size)}
        newest == IF ts = {} THEN current_time
                  ELSE CHOOSE t \in ts : \A x \in ts : t >= x
    IN  Max(0, window_size - (current_time - newest))

\* retry_after = window_size - (current_time - oldest_in_window); max(0, retry_after)
RetryAfter(queue, current_time) ==
    LET oldest_in_window ==
            OldestInWindow(queue, current_time - window_size, current_time)
    IN  Max(0, window_size - (current_time - oldest_in_window))

DeniedResult(reason, limit, current_count, queue, current_time, user_id) ==
    [allowed |-> FALSE, reason |-> reason, limit |-> limit,
     current_count |-> current_count,
     retry_after |-> RetryAfter(queue, current_time),
     is_vip |-> is_vip_user(user_id)]

\* Mutant of RecordUser: the admitted request is not put in the user queue.
RecordUser_Skip(uo, u, o, current_time) == TouchUser(uo, u, o)

\* user_queue.append(current_time)
RecordUser(uo, u, o, current_time) ==
    LET t == TouchUser(uo, u, o)
    IN  [t EXCEPT ![u] = [@ EXCEPT ![o] = Append(@, current_time)]]

\* global_queue.append(current_time)
RecordGlobal(go, o, current_time) ==
    LET t == TouchQueue(go, o)
    IN  [t EXCEPT ![o] = Append(@, current_time)]

\* Mutant of UserDenied: the denied request is counted in the global window.
UserDenied_RecordsGlobal(uo, go, u, o, current_time, user_requests_in_window, user_limit) ==
    [user_operations |-> uo,
     global_operations |-> RecordGlobal(go, o, current_time),
     result |-> DeniedResult("user_limit_exceeded", user_limit,
                             user_requests_in_window, uo[u][o], current_time, u)]

\* Mutant of GlobalDenied: the denied request is counted against the user.
GlobalDenied_RecordsUser(uo, go, u, o, current_time, global_requests_in_window, global_limit) ==
    [user_operations |-> RecordUser(uo, u, o, current_time),
     global_operations |-> go,
     result |-> DeniedResult("global_limit_exceeded", global_limit,
                             global_requests_in_window, go[o], current_time, u)]

\* The branch of is_allowed taken at the user limit: nothing is recorded;
\* uo is user_operations after user_operations[user_id][operation] was read.
UserDenied(uo, go, u, o, current_time, user_requests_in_window, user_limit) ==
    [user_operations |-> uo,
     global_operations |-> go,
     result |-> DeniedResult("user_limit_exceeded", user_limit,
                             user_requests_in_window, uo[u][o], current_time, u)]

\* The branch taken at the global limit: nothing is recorded; go is
\* global_operations after global_operations[operation] was read.
GlobalDenied(uo, go, u, o, current_time, global_requests_in_window, global_limit) ==
    [user_operations |-> uo,
     global_operations |-> go,
     result |-> DeniedResult("global_limit_exceeded", global_limit,
                             global_requests_in_window, go[o], current_time, u)]

\* Allow request and record it.
Admitted(uo, go, u, o, current_time, user_requests_in_window, user_limit, global_requests_in_window, global_limit) ==
    [user_operations |-> RecordUser(uo, u, o, current_time),
     global_operations |-> RecordGlobal(go, o, current_time),
     result |-> [allowed |-> TRUE, user_limit |-> user_limit,
                 user_remaining |-> user_limit - user_requests_in_window - 1,
                 global_limit |-> global_limit,
                 global_remaining |-> global_limit - global_requests_in_window - 1,
                 is_vip |-> is_vip_user(u)]]

\* Mutant of Decide: the global limit is checked before the user limit.
Decide_GlobalFirst(uo0, go0, u, o, current_time) ==
    LET uo == TouchUser(uo0, u, o)
        user_limit == get_user_limit(u, o)
        cutoff_time == current_time - window_size
        user_requests_in_window == CountInWindow(uo[u][o], cutoff_time)
        go == TouchQueue(go0, o)
        global_limit == get_global_limit(o)
        global_requests_in_window == CountInWindow(go[o], cutoff_time)
    IN  IF GlobalLimitReached(global_requests_in_window, global_limit)
        THEN GlobalDenied(uo, go, u, o, current_time,
                          global_requests_in_window, global_limit)
        ELSE IF UserLimitReached(user_requests_in_window, user_limit)
        THEN UserDenied(uo, go0, u, o, current_time,
                        user_requests_in_window, user_limit)
        ELSE Admitted(uo, go, u, o, current_time, user_requests_in_window,
                      user_limit, global_requests_in_window, global_limit)

\* The body of is_allowed from the user check on, after the cleanup.
Decide(uo0, go0, u, o, current_time) ==
    LET uo == TouchUser(uo0, u, o)
        user_limit == get_user_limit(u, o)
        cutoff_time == current_time - window_size
        user_requests_in_window == CountInWindow(uo[u][o], cutoff_time)
        go == TouchQueue(go0, o)
        global_limit == get_global_limit(o)
        global_requests_in_window == CountInWindow(go[o], cutoff_time)
    IN  IF UserLimitReached(user_requests_in_window, user_limit)
        THEN UserDenied(uo, go0, u, o, current_time,
                        user_requests_in_window, user_limit)
        ELSE IF GlobalLimitReached(global_requests_in_window, global_limit)
        THEN GlobalDenied(uo, go, u, o, current_time,
                          global_requests_in_window, global_limit)
        ELSE Admitted(uo, go, u, o, current_time, user_requests_in_window,
                      user_limit, global_requests_in_window, global_limit)

\* The dict is_allowed returns, handed to the caller.
Return(u, o, current_time, result) ==
    last' = [user |-> u, operation |-> o, time |-> current_time, result |-> result]

(***************************************************************************)
(* RateLimiter operations, each atomic under self.lock.                    *)
(***************************************************************************)
is_allowed(user_id, operation) ==
    LET current_time == now
        c == cleanup_old_entries(user_operations, global_operations,
                                 last_cleanup, current_time)
        d == Decide(c.user_operations, c.global_operations,
                    user_id, operation, current_time)
    IN  /\ last_cleanup' = c.last_cleanup
        /\ user_operations' = d.user_operations
        /\ global_operations' = d.global_operations
        /\ Return(user_id, operation, current_time, d.result)
        /\ UNCHANGED <<now, operation_limits, global_limits, vip_users>>

add_vip_user(user_id) ==
    /\ vip_users' = vip_users \cup {user_id}
    /\ UNCHANGED <<now, user_operations, global_operations, last_cleanup,
                   operation_limits, global_limits, last>>

remove_vip_user(user_id) ==
    /\ vip_users' = vip_users \ {user_id}
    /\ UNCHANGED <<now, user_operations, global_operations, last_cleanup,
                   operation_limits, global_limits, last>>

\* operation = NoOperation stands for operation=None
\* Mutant of reset_user_limits: the queues of every subject are dropped.
reset_user_limits_Everyone(user_id, operation) ==
    /\ user_operations' = EmptyDict
    /\ UNCHANGED <<now, global_operations, last_cleanup, operation_limits,
                   global_limits, vip_users, last>>

reset_user_limits(user_id, operation) ==
    /\ user_operations' =
          IF user_id \in DOMAIN user_operations
          THEN IF operation # NoOperation
               THEN IF operation \in DOMAIN user_operations[user_id]
                    THEN [user_operations EXCEPT ![user_id] =
                             [@ EXCEPT ![operation] = <<>>]]
                    ELSE user_operations
               ELSE Restrict(user_operations, DOMAIN user_operations \ {user_id})
          ELSE user_operations
    /\ UNCHANGED <<now, global_operations, last_cleanup, operation_limits,
                   global_limits, vip_users, last>>

reset_global_limits(operation) ==
    /\ global_operations' =
          IF operation # NoOperation
          THEN IF operation \in DOMAIN global_operations
               THEN [global_operations EXCEPT ![operation] = <<>>]
               ELSE global_operations
          ELSE EmptyDict
    /\ UNCHANGED <<now, user_operations, last_cleanup, operation_limits,
                   global_limits, vip_users, last>>

\* if operation_limits: self.operation_limits.update(operation_limits)
\* Mutant of update_limits: a table given replaces the whole table.
update_limits_Replace(new_operation_limits, new_global_limits) ==
    /\ operation_limits' =
          IF DOMAIN new_operation_limits # {}
          THEN new_operation_limits
          ELSE operation_limits
    /\ global_limits' =
          IF DOMAIN new_global_limits # {}
          THEN new_global_limits
          ELSE global_limits
    /\ UNCHANGED <<now, user_operations, global_operations, last_cleanup,
                   vip_users, last>>

update_limits(new_operation_limits, new_global_limits) ==
    /\ operation_limits' =
          IF DOMAIN new_operation_limits # {}
          THEN DictUpdate(operation_limits, new_operation_limits)
          ELSE operation_limits
    /\ global_limits' =
          IF DOMAIN new_global_limits # {}
          THEN DictUpdate(global_limits, new_global_limits)
          ELSE global_limits
    /\ UNCHANGED <<now, user_operations, global_operations, last_cleanup,
                   vip_users, last>>

(***************************************************************************)
(* The clock.                                                              *)
(***************************************************************************)
TickCount(t) == (t \div cleanup_interval) + ((t % cleanup_interval) \div TickStep)

Tick(d, max_ticks) ==
    /\ TickCount(now) < max_ticks
    /\ now' = now + d
    /\ UNCHANGED <<limiterVars, denials, threadVars, cacheVars>>

(***************************************************************************)
(* History of denials: per (user, operation) the latest denial delivered   *)
(* since the last admission of that operation.                             *)
(***************************************************************************)
\* An earlier denial d that reported a window exactly at its limit, and a
\* later denial with result r at time t for the same reason and limit.
SameLimitDenials(d, r, t) ==
    /\ d.time # -1
    /\ d.time < t
    /\ d.reason = r.reason
    /\ d.limit = r.limit
    /\ d.current_count = d.limit

TrackDenials ==
    denials' =
        IF last'.result.allowed
        THEN [k \in DOMAIN denials |->
                 IF k[2] = last'.operation THEN NoDenial ELSE denials[k]]
        ELSE [denials EXCEPT ![<<last'.user, last'.operation>>] =
                 [time |-> last'.time, reason |-> last'.result.reason,
                  retry_after |-> last'.result.retry_after,
                  limit |-> last'.result.limit,
                  current_count |-> last'.result.current_count,
                  follows |-> SameLimitDenials(@, last'.result, last'.time)]]


(***************************************************************************)
(* NewsCache after __init__: empty, the cleanup thread just started.       *)
(***************************************************************************)
NoCacheCall ==
    [op |-> "none", key |-> "", value |-> <<>>, outcome |-> "none"]

\* The counters hits, misses, sets and evictions of cache_stats are only
\* ever incremented and are read by get_stats alone; the model keeps the
\* increments of the latest call.
NothingAdded == [hits |-> 0, misses |-> 0, sets |-> 0, evictions |-> 0]

InitCache ==
    /\ cache = EmptyDict
    /\ access_times = <<>>
    /\ memory_usage_bytes = 0
    /\ last_sweep = 0
    /\ cache_last = NoCacheCall
    /\ stats_added = NothingAdded
    /\ heap = EmptyDict

(***************************************************************************)
(* The quota manager in service: checks, VIP administration and the clock, *)
(* every operation atomic.                                                 *)
(***************************************************************************)
Init ==
    /\ now = 0
    /\ user_operations = EmptyDict
    /\ global_operations = EmptyDict
    /\ last_cleanup = 0
    /\ operation_limits = InitOperationLimits
    /\ global_limits = InitGlobalLimits
    /\ vip_users = {}
    /\ last = NoCall
    /\ denials = [k \in Users \X Operations |-> NoDenial]
    /\ lock = 0
    /\ cache_lock = 0
    /\ pc = [t \in {} |-> "idle"]
    /\ frame = [t \in {} |-> NoFrame]
    /\ InitCache

Check == \E u \in Users, o \in Operations : is_allowed(u, o) /\ TrackDenials /\ UNCHANGED <<threadVars, cacheVars>>
AddVip == \E u \in Users : add_vip_user(u) /\ UNCHANGED <<denials, threadVars, cacheVars>>
RemoveVip == \E u \in Users : remove_vip_user(u) /\ UNCHANGED <<denials, threadVars, cacheVars>>
Advance == \E d \in {TickStep, cleanup_interval} : Tick(d, MaxTicks)

Next ==
    \/ Check
    \/ AddVip
    \/ RemoveVip
    \/ Advance

Spec == Init /\ [][Next]_vars

(***************************************************************************)
(* The quota manager left alone: the only thing certain to go on is the    *)
(* clock; RateLimiter starts no thread and nobody is obliged to call it.   *)
(***************************************************************************)
SpecIdle == Spec /\ WF_vars(Advance)

(***************************************************************************)
(* The quota manager with the clock stepping by the window and by what is  *)
(* left of the cleanup interval, so that Checks and sweeps meet timestamps *)
(* exactly window_size old.                                                *)
(***************************************************************************)
Horizon == cleanup_interval + window_size

BoundaryAdvance ==
    \E d \in {window_size, cleanup_interval - window_size} :
        /\ now + d <= Horizon
        /\ now' = now + d
        /\ UNCHANGED <<limiterVars, denials, threadVars, cacheVars>>

NextBoundary ==
    \/ Check
    \/ BoundaryAdvance

SpecBoundary == Init /\ [][NextBoundary]_vars

(***************************************************************************)
(* The quota manager with its administrative operations as well.           *)
(***************************************************************************)
ResetUser ==
    \E u \in Users, o \in Operations \cup {NoOperation} :
        reset_user_limits(u, o) /\ UNCHANGED <<denials, threadVars, cacheVars>>
ResetGlobal ==
    \E o \in Operations \cup {NoOperation} :
        reset_global_limits(o) /\ UNCHANGED <<denials, threadVars, cacheVars>>
UpdateLimits ==
    \E ol \in OperationLimitUpdates, gl \in GlobalLimitUpdates :
        update_limits(ol, gl) /\ UNCHANGED <<denials, threadVars, cacheVars>>

\* Checks while an administrator resets windows.
NextReset ==
    \/ Check
    \/ ResetUser
    \/ ResetGlobal
    \/ Advance

SpecReset == Init /\ [][NextReset]_vars

\* Checks while an administrator updates the limit tables.
NextLimits ==
    \/ Check
    \/ UpdateLimits
    \/ Advance

SpecLimits == Init /\ [][NextLimits]_vars

(***************************************************************************)
(* is_allowed step by step, called by concurrent threads.  A thread enters *)
(* the body of "with self.lock" only when the lock is free; inside, it     *)
(* reads the clock and cleans up, checks the user limit, checks the global *)
(* limit and records the request, and any other thread may run between two *)
(* of its steps.                                                           *)
(***************************************************************************)
\* Mutant of LockAvailable: is_allowed without "with self.lock".
LockAvailable_NoLock(t) == TRUE

\* self.lock is free or already held by this thread (an RLock).
LockAvailable(t) == lock = 0 \/ lock = t

\* Mutant of Release: the lock is still held after the with-block.
Release_Keeps(t) == lock' = lock

Release(t) == lock' = IF lock = t THEN 0 ELSE lock

\* A thread calls is_allowed(user_id, operation) and waits for the lock.
Call(t, user_id, operation) ==
    /\ pc[t] = "idle"
    /\ pc' = [pc EXCEPT ![t] = "waiting"]
    /\ frame' = [frame EXCEPT ![t] =
                    [NoFrame EXCEPT !.user = user_id, !.operation = operation]]
    /\ UNCHANGED <<now, limiterVars, denials, lock>>

\* with self.lock: current_time = time.time(); self._cleanup_old_entries()
Acquire(t) ==
    /\ pc[t] = "waiting"
    /\ LockAvailable(t)
    /\ lock' = t
    /\ LET c == cleanup_old_entries(user_operations, global_operations,
                                    last_cleanup, now)
       IN  /\ user_operations' = c.user_operations
           /\ global_operations' = c.global_operations
           /\ last_cleanup' = c.last_cleanup
    /\ frame' = [frame EXCEPT ![t].current_time = now]
    /\ pc' = [pc EXCEPT ![t] = "check_user"]
    /\ UNCHANGED <<now, operation_limits, global_limits, vip_users, last, denials>>

\* Lines 141-164: count the user's requests in the window, deny at the limit.
CheckUser(t) ==
    /\ pc[t] = "check_user"
    /\ LET f == frame[t]
           uo == TouchUser(user_operations, f.user, f.operation)
           user_limit == get_user_limit(f.user, f.operation)
           user_requests_in_window ==
               CountInWindow(uo[f.user][f.operation], f.current_time - window_size)
       IN  IF UserLimitReached(user_requests_in_window, user_limit)
           THEN LET d == UserDenied(uo, global_operations, f.user, f.operation,
                                    f.current_time, user_requests_in_window,
                                    user_limit)
                IN  /\ user_operations' = d.user_operations
                    /\ global_operations' = d.global_operations
                    /\ Return(f.user, f.operation, f.current_time, d.result)
                    /\ Release(t)
                    /\ pc' = [pc EXCEPT ![t] = "idle"]
                    /\ frame' = [frame EXCEPT ![t] = NoFrame]
           ELSE /\ user_operations' = uo
                /\ frame' = [frame EXCEPT
                               ![t].user_limit = user_limit,
                               ![t].user_requests_in_window = user_requests_in_window]
                /\ pc' = [pc EXCEPT ![t] = "check_global"]
                /\ UNCHANGED <<global_operations, last, lock>>
    /\ UNCHANGED <<now, last_cleanup, operation_limits, global_limits, vip_users,
                   denials>>

\* Lines 166-186: count the global requests in the window, deny at the limit.
CheckGlobal(t) ==
    /\ pc[t] = "check_global"
    /\ LET f == frame[t]
           go == TouchQueue(global_operations, f.operation)
           global_limit == get_global_limit(f.operation)
           global_requests_in_window ==
               CountInWindow(go[f.operation], f.current_time - window_size)
       IN  IF GlobalLimitReached(global_requests_in_window, global_limit)
           THEN LET d == GlobalDenied(TouchUser(user_operations, f.user, f.operation),
                                      go, f.user, f.operation, f.current_time,
                                      global_requests_in_window, global_limit)
                IN  /\ user_operations' = d.user_operations
                    /\ global_operations' = d.global_operations
                    /\ Return(f.user, f.operation, f.current_time, d.result)
                    /\ Release(t)
                    /\ pc' = [pc EXCEPT ![t] = "idle"]
                    /\ frame' = [frame EXCEPT ![t] = NoFrame]
           ELSE /\ global_operations' = go
                /\ frame' = [frame EXCEPT
                               ![t].global_limit = global_limit,
                               ![t].global_requests_in_window =
                                   global_requests_in_window]
                /\ pc' = [pc EXCEPT ![t] = "record"]
                /\ UNCHANGED <<user_operations, last, lock>>
    /\ UNCHANGED <<now, last_cleanup, operation_limits, global_limits, vip_users,
                   denials>>

\* Lines 188-199: append the timestamp to both queues and return.
Record(t) ==
    /\ pc[t] = "record"
    /\ LET f == frame[t]
           d == Admitted(TouchUser(user_operations, f.user, f.operation),
                         TouchQueue(global_operations, f.operation),
                         f.user, f.operation, f.current_time,
                         f.user_requests_in_window, f.user_limit,
                         f.global_requests_in_window, f.global_limit)
       IN  /\ user_operations' = d.user_operations
           /\ global_operations' = d.global_operations
           /\ Return(f.user, f.operation, f.current_time, d.result)
    /\ Release(t)
    /\ pc' = [pc EXCEPT ![t] = "idle"]
    /\ frame' = [frame EXCEPT ![t] = NoFrame]
    /\ UNCHANGED <<now, last_cleanup, operation_limits, global_limits, vip_users,
                   denials>>

InitThreads ==
    /\ now = 0
    /\ user_operations = EmptyDict
    /\ global_operations = EmptyDict
    /\ last_cleanup = 0
    /\ operation_limits = InitOperationLimits
    /\ global_limits = InitGlobalLimits
    /\ vip_users \in {{}, {1}}
    /\ last = NoCall
    /\ denials = [k \in Users \X Operations |-> NoDenial]
    /\ lock = 0
    /\ cache_lock = 0
    /\ pc = [t \in Threads |-> "idle"]
    /\ frame = [t \in Threads |-> NoFrame]
    /\ InitCache

ThreadCall ==
    \E t \in Threads, u \in Users, o \in Operations :
        Call(t, u, o) /\ UNCHANGED <<cache_lock, cacheVars>>
ThreadAcquire == \E t \in Threads : Acquire(t) /\ UNCHANGED <<cache_lock, cacheVars>>
ThreadCheckUser == \E t \in Threads : CheckUser(t) /\ UNCHANGED <<cache_lock, cacheVars>>
ThreadCheckGlobal == \E t \in Threads : CheckGlobal(t) /\ UNCHANGED <<cache_lock, cacheVars>>
ThreadRecord == \E t \in Threads : Record(t) /\ UNCHANGED <<cache_lock, cacheVars>>

NextThreads ==
    \/ ThreadCall
    \/ ThreadAcquire
    \/ ThreadCheckUser
    \/ ThreadCheckGlobal
    \/ ThreadRecord
    \/ Advance

SpecThreads == InitThreads /\ [][NextThreads]_vars

(***************************************************************************)
(* NewsCache (src/src/newschecker/core/cache.py).  Every public method     *)
(* runs under self.lock and is one atomic step.  A cache key is the input  *)
(* of the digest, cache_type ":" content, the digest being injective on    *)
(* the inputs of the model.  access_times is the dict in insertion order:  *)
(* a sequence of (key, time) items.  A store is the record of the three    *)
(* fields the private helpers work on.                                     *)
(***************************************************************************)
\* Optional values: None, or a one-element sequence holding the value.
None == <<>>
Some(x) == <<x>>

CacheTypes == {"user_stats", "analysis"}

\* The content a key is generated from: a string, or a dict given by its
\* items in insertion order, each a pair of a field name and the JSON text
\* of its value.
Str(text) == [kind |-> "str", text |-> text, items |-> <<>>]
Dict(items) == [kind |-> "dict", text |-> "", items |-> items]

Contents == {Str("x")}
\* One structured content with its fields in either order: the first is
\* what entries are set with, the others what they are read with.
SetKeyContents == {Dict(<<<<"a", "1">>, <<"b", "2">>>>)}
GetKeyContents == {Dict(<<<<"b", "2">>, <<"a", "1">>>>), Str("x")}
\* The contents and the value of a cache filled with entries of one size.
FillContents == {Str("x"), Str("y")}
FillValue == "abcd"
Values == {"abcd", "abcdefgh", "abcdefghijkl"}
CustomTtls == {None, Some(0), Some(TickStep)}

ttl_config ==
    [analysis |-> 7200, search |-> 1800, url_content |-> 3600,
     source_verification |-> 1800, user_stats |-> 300, default |-> 1800]

\* evictions is what the running call has added to cache_stats['evictions'].
Store == [cache |-> cache, access_times |-> access_times,
          memory_usage_bytes |-> memory_usage_bytes, evictions |-> 0]

\* The field names of the model in the order sorted() puts them.
FieldNames == <<"a", "b">>
FieldRank(f) == CHOOSE i \in 1..Len(FieldNames) : FieldNames[i] = f

\* The items of a dict ordered by field name (sort_keys=True).
RECURSIVE SortItems(_)
SortItems(items) ==
    IF items = <<>> THEN <<>>
    ELSE LET m == CHOOSE i \in 1..Len(items) :
                      \A j \in 1..Len(items) :
                          FieldRank(items[i][1]) <= FieldRank(items[j][1])
         IN  <<items[m]>> \o SortItems(SubSeq(items, 1, m - 1) \o SubSeq(items, m + 1, Len(items)))

\* "a": 1, "b": 2
RECURSIVE JoinItems(_)
JoinItems(items) ==
    IF items = <<>> THEN ""
    ELSE "\"" \o items[1][1] \o "\": " \o items[1][2]
         \o (IF Len(items) > 1 THEN ", " ELSE "") \o JoinItems(Tail(items))

\* Mutant of json_dumps: the items are written in insertion order.
json_dumps_Unsorted(items) == "{" \o JoinItems(items) \o "}"

\* json.dumps(content, sort_keys=True, ensure_ascii=False)
json_dumps(items) == "{" \o JoinItems(SortItems(items)) \o "}"

\* content_str of _generate_key
content_str(content) ==
    IF content.kind = "dict" THEN json_dumps(content.items) ELSE content.text

\* hash_input = f"{cache_type}:{content_str}"
generate_key(content, cache_type) == cache_type \o ":" \o content_str(content)

\* _generate_key tabulated over the contents and cache types of the model.
\* The messages the bot receives: links and plain texts; the texts a fetched
\* page can have.
UrlMessages == {"http://n"}
TextMessages == {"abcd"}
PageTexts == {"", "abcd"}
BotContents == {Str(text) : text \in UrlMessages \cup TextMessages \cup PageTexts}

AllContents ==
    Contents \cup FillContents \cup SetKeyContents \cup GetKeyContents \cup BotContents
KeyOf == [content \in AllContents, cache_type \in CacheTypes \cup {"url_content"} |->
             generate_key(content, cache_type)]

\* What a value reads as: the text of a string, the JSON text the object
\* has now for a reference.
Deref(value) == IF value \in DOMAIN heap THEN heap[value] ELSE value

\* len(value.encode('utf-8')), len(json.dumps(value).encode('utf-8'))
calculate_size(value) == Len(Deref(value))

\* Mutant of is_expired: an entry expires at its expiry time already.
is_expired_Closed(cache_entry, t) ==
    cache_entry.expiry_time # None /\ t >= cache_entry.expiry_time[1]

\* _is_expired, t being the value of time.time()
is_expired(cache_entry, t) ==
    cache_entry.expiry_time # None /\ t > cache_entry.expiry_time[1]

\* del self.access_times[key]
DelAccessTime(at, key) ==
    LET Other(item) == item.key # key
    IN  SelectSeq(at, Other)

\* self.access_times[key] = t: in place for a key present, appended otherwise
SetAccessTime(at, key, t) ==
    IF \E i \in 1..Len(at) : at[i].key = key
    THEN [i \in 1..Len(at) |-> IF at[i].key = key THEN [key |-> key, time |-> t]
                                                  ELSE at[i]]
    ELSE Append(at, [key |-> key, time |-> t])

\* d[k] = v
DictSet(d, k, v) == [x \in DOMAIN d \cup {k} |-> IF x = k THEN v ELSE d[x]]

\* Mutant of remove_entry: the size of the entry is not taken off the usage.
remove_entry_KeepsUsage(st, key) ==
    [cache |-> Restrict(st.cache, DOMAIN st.cache \ {key}),
     access_times |-> DelAccessTime(st.access_times, key),
     memory_usage_bytes |-> st.memory_usage_bytes,
     evictions |-> st.evictions]

\* _remove_entry
remove_entry(st, key) ==
    [cache |-> Restrict(st.cache, DOMAIN st.cache \ {key}),
     access_times |-> DelAccessTime(st.access_times, key),
     memory_usage_bytes |->
        IF key \in DOMAIN st.cache
        THEN st.memory_usage_bytes - st.cache[key].size
        ELSE st.memory_usage_bytes,
     evictions |-> st.evictions]

\* for key in keys: self._remove_entry(key)
RECURSIVE RemoveEntries(_, _)
RemoveEntries(st, keys) ==
    IF keys = {} THEN st
    ELSE LET key == CHOOSE k \in keys : TRUE
         IN  RemoveEntries(remove_entry(st, key), keys \ {key})

\* self.cache_stats['evictions'] += 1
CountEviction(st) == [st EXCEPT !.evictions = @ + 1]

\* for key in expired_keys: self._remove_entry(key); evictions += 1
RECURSIVE EvictEntries(_, _)
EvictEntries(st, keys) ==
    IF keys = {} THEN st
    ELSE LET key == CHOOSE k \in keys : TRUE
         IN  EvictEntries(CountEviction(remove_entry(st, key)), keys \ {key})

\* Mutant of cleanup_expired: the sweep removes no expired entry.
cleanup_expired_None(st, t) == st

\* _cleanup_expired, t being the value of time.time()
cleanup_expired(st, t) ==
    EvictEntries(st, {key \in DOMAIN st.cache : is_expired(st.cache[key], t)})

\* Mutant of SortedEntries: the entries in the order they were inserted.
SortedEntries_Insertion(at) == at

\* sorted(self.access_times.items(), key=lambda x: x[1]): stable, ascending
RECURSIVE SortedEntries(_)
SortedEntries(at) ==
    IF at = <<>> THEN <<>>
    ELSE LET m == CHOOSE i \in 1..Len(at) :
                      \A j \in 1..Len(at) :
                          \/ at[i].time < at[j].time
                          \/ at[i].time = at[j].time /\ i <= j
         IN  <<at[m]>> \o SortedEntries(SubSeq(at, 1, m - 1) \o SubSeq(at, m + 1, Len(at)))

\* memory_usage_bytes <= self.max_memory_bytes * 0.8
BelowLowWater(st) == 10 * st.memory_usage_bytes <= 8 * max_memory_bytes

\* The eviction loop of _enforce_memory_limit over the sorted entries.
RECURSIVE EvictLRU(_, _)
EvictLRU(st, sorted_entries) ==
    IF sorted_entries = <<>> \/ BelowLowWater(st) THEN st
    ELSE EvictLRU(CountEviction(remove_entry(st, Head(sorted_entries).key)),
                  Tail(sorted_entries))

enforce_memory_limit(st) ==
    IF st.memory_usage_bytes <= max_memory_bytes THEN st
    ELSE EvictLRU(st, SortedEntries(st.access_times))

\* ttl = custom_ttl if custom_ttl is not None else ttl_config.get(cache_type, default)
ResolveTtl(cache_type, custom_ttl) ==
    IF custom_ttl # None THEN custom_ttl[1]
    ELSE DictGet(ttl_config, cache_type, ttl_config["default"])

\* The store and the value returned by set called at time t.
SetResult(st, content, value, cache_type, custom_ttl, t) ==
    LET key == KeyOf[content, cache_type]
        entry_size == calculate_size(value)
        full == /\ st.memory_usage_bytes + entry_size > max_memory_bytes
                /\ key \notin DOMAIN st.cache
        st1 == IF full THEN enforce_memory_limit(st) ELSE st
        st2 == IF key \in DOMAIN st1.cache THEN remove_entry(st1, key) ELSE st1
        ttl == ResolveTtl(cache_type, custom_ttl)
        entry == [value |-> value, cache_type |-> cache_type, created_time |-> t,
                  expiry_time |-> IF ttl > 0 THEN Some(t + ttl) ELSE None,
                  size |-> entry_size]
    IN  IF full /\ st1.memory_usage_bytes + entry_size > max_memory_bytes
        THEN [store |-> st1, stored |-> FALSE]
        ELSE [store |-> [cache |-> DictSet(st2.cache, key, entry),
                         access_times |-> SetAccessTime(st2.access_times, key, t),
                         memory_usage_bytes |-> st2.memory_usage_bytes + entry_size,
                         evictions |-> st2.evictions],
              stored |-> TRUE]

\* The store, the value returned and the branch taken by get called at time t.
GetResult(st, content, cache_type, t) ==
    LET key == KeyOf[content, cache_type]
    IN  IF key \notin DOMAIN st.cache
        THEN [store |-> st, value |-> None, outcome |-> "miss"]
        ELSE IF is_expired(st.cache[key], t)
        THEN [store |-> remove_entry(st, key), value |-> None, outcome |-> "expired"]
        ELSE [store |-> [st EXCEPT !.access_times = SetAccessTime(@, key, t)],
              value |-> Some(st.cache[key].value), outcome |-> "hit"]

\* The store after clear(cache_type); NoOperation stands for None.
\* Mutant of ClearResult: the cache type is ignored, everything is cleared.
ClearResult_IgnoresType(st, cache_type) ==
    [cache |-> EmptyDict, access_times |-> <<>>, memory_usage_bytes |-> 0,
     evictions |-> st.evictions]

ClearResult(st, cache_type) ==
    IF cache_type = NoOperation
    THEN [cache |-> EmptyDict, access_times |-> <<>>, memory_usage_bytes |-> 0,
          evictions |-> st.evictions]
    ELSE RemoveEntries(st, {key \in DOMAIN st.cache :
                               st.cache[key].cache_type = cache_type})

StoreBecomes(st) ==
    /\ cache' = st.cache
    /\ access_times' = st.access_times
    /\ memory_usage_bytes' = st.memory_usage_bytes

CacheFrame == UNCHANGED <<now, limiterVars, denials, heap>>

set(content, value, cache_type, custom_ttl) ==
    LET r == SetResult(Store, content, value, cache_type, custom_ttl, now)
    IN  /\ StoreBecomes(r.store)
        /\ cache_last' = [op |-> "set", key |-> KeyOf[content, cache_type],
                          value |-> None,
                          outcome |-> IF r.stored THEN "stored" ELSE "rejected"]
        /\ stats_added' = [NothingAdded EXCEPT !.sets = IF r.stored THEN 1 ELSE 0,
                                               !.evictions = r.store.evictions]
        /\ UNCHANGED last_sweep
        /\ CacheFrame

get(content, cache_type) ==
    LET r == GetResult(Store, content, cache_type, now)
    IN  /\ StoreBecomes(r.store)
        /\ cache_last' = [op |-> "get", key |-> KeyOf[content, cache_type],
                          value |-> r.value, outcome |-> r.outcome]
        /\ stats_added' = [NothingAdded EXCEPT
                              !.hits = IF r.outcome = "hit" THEN 1 ELSE 0,
                              !.misses = IF r.outcome = "hit" THEN 0 ELSE 1]
        /\ UNCHANGED last_sweep
        /\ CacheFrame

invalidate(content, cache_type) ==
    LET key == KeyOf[content, cache_type]
    IN  /\ StoreBecomes(IF key \in DOMAIN cache THEN remove_entry(Store, key) ELSE Store)
        /\ cache_last' = [op |-> "invalidate", key |-> key, value |-> None,
                          outcome |-> IF key \in DOMAIN cache THEN "removed"
                                                              ELSE "not_found"]
        /\ stats_added' = NothingAdded
        /\ UNCHANGED last_sweep
        /\ CacheFrame

clear(cache_type) ==
    /\ StoreBecomes(ClearResult(Store, cache_type))
    /\ cache_last' = [op |-> "clear", key |-> "", value |-> None,
                      outcome |-> "cleared"]
    /\ stats_added' = NothingAdded
    /\ UNCHANGED last_sweep
    /\ CacheFrame

\* One round of the background thread: it has slept sweep_interval seconds
\* since its last round, takes the lock, removes the expired entries and
\* enforces the memory limit.
cleanup_worker ==
    /\ now >= last_sweep + sweep_interval
    /\ LET st == enforce_memory_limit(cleanup_expired(Store, now))
       IN  /\ StoreBecomes(st)
           /\ stats_added' = [NothingAdded EXCEPT !.evictions = st.evictions]
    /\ last_sweep' = now
    /\ UNCHANGED cache_last
    /\ CacheFrame

CacheSet ==
    \E content \in Contents, value \in Values, cache_type \in CacheTypes,
       custom_ttl \in CustomTtls :
        set(content, value, cache_type, custom_ttl) /\ UNCHANGED threadVars
CacheGet == \E content \in Contents, cache_type \in CacheTypes : get(content, cache_type) /\ UNCHANGED threadVars
CacheInvalidate ==
    \E content \in Contents, cache_type \in CacheTypes : invalidate(content, cache_type) /\ UNCHANGED threadVars
CacheClear == \E cache_type \in CacheTypes \cup {NoOperation} : clear(cache_type) /\ UNCHANGED threadVars
CacheSweep == cleanup_worker /\ UNCHANGED threadVars
CacheAdvance == \E d \in {TickStep, sweep_interval} : Tick(d, MaxCacheTicks)

NextCache ==
    \/ CacheSet
    \/ CacheGet
    \/ CacheInvalidate
    \/ CacheClear
    \/ CacheSweep
    \/ CacheAdvance

SpecCache == Init /\ [][NextCache]_vars

(***************************************************************************)
(* The cache with its cleanup thread running: the thread is started by     *)
(* the constructor and loops forever, so time passing and the thread's     *)
(* round, once its sleep is over, are certain to happen.                   *)
(***************************************************************************)
\* One value small enough for every key to hold it within the memory limit,
\* so that what the sweep removes it removes for expiry.
SweptValues == {"abcd"}
SweptTtls == {Some(0), Some(TickStep)}

SweptSet ==
    \E content \in Contents, value \in SweptValues, cache_type \in CacheTypes,
       custom_ttl \in SweptTtls :
        set(content, value, cache_type, custom_ttl) /\ UNCHANGED threadVars

NextCacheSwept ==
    \/ SweptSet
    \/ CacheGet
    \/ CacheSweep
    \/ CacheAdvance

SpecCacheSwept ==
    /\ Init
    /\ [][NextCacheSwept]_vars
    /\ WF_vars(CacheAdvance)
    /\ WF_vars(CacheSweep)

(***************************************************************************)
(* The cache filled with entries of one size under several keys, read in   *)
(* between, the clock advancing by short steps.                            *)
(***************************************************************************)
FillSet ==
    \E content \in FillContents, cache_type \in CacheTypes :
        set(content, FillValue, cache_type, None) /\ UNCHANGED threadVars
FillGet == \E content \in FillContents, cache_type \in CacheTypes : get(content, cache_type) /\ UNCHANGED threadVars
FillAdvance == Tick(TickStep, MaxCacheTicks)

NextCacheFill ==
    \/ FillSet
    \/ FillGet
    \/ FillAdvance

SpecCacheFill == Init /\ [][NextCacheFill]_vars

(***************************************************************************)
(* The cache under memory pressure: several keys set with values of        *)
(* several sizes, set again, read in between and swept by the cleanup      *)
(* thread.                                                                 *)
(***************************************************************************)
EvictSet ==
    \E content \in FillContents, value \in Values, cache_type \in CacheTypes :
        set(content, value, cache_type, None) /\ UNCHANGED threadVars
EvictGet == \E content \in FillContents, cache_type \in CacheTypes : get(content, cache_type) /\ UNCHANGED threadVars

NextCacheEvict ==
    \/ EvictSet
    \/ EvictGet
    \/ CacheSweep
    \/ CacheAdvance

SpecCacheEvict == Init /\ [][NextCacheEvict]_vars

(***************************************************************************)
(* The cache filled to its limit and then given small values under new     *)
(* keys.                                                                   *)
(***************************************************************************)
SmallValue == "ab"
LargeValue == "abcdefgh"

SmallSet ==
    \E content \in FillContents, value \in {SmallValue, LargeValue}, cache_type \in CacheTypes :
        set(content, value, cache_type, None) /\ UNCHANGED threadVars

NextCacheSmall ==
    \/ SmallSet
    \/ FillAdvance

SpecCacheSmall == Init /\ [][NextCacheSmall]_vars

(***************************************************************************)
(* The cache written with a structured content and read with the same      *)
(* content in another field order, and with a string.                      *)
(***************************************************************************)
KeysSet ==
    \E content \in SetKeyContents, value \in Values, cache_type \in CacheTypes :
        set(content, value, cache_type, None) /\ UNCHANGED threadVars
KeysGet == \E content \in GetKeyContents, cache_type \in CacheTypes : get(content, cache_type) /\ UNCHANGED threadVars
KeysInvalidate ==
    \E content \in GetKeyContents, cache_type \in CacheTypes :
        invalidate(content, cache_type) /\ UNCHANGED threadVars

NextCacheKeys ==
    \/ KeysSet
    \/ KeysGet
    \/ KeysInvalidate
    \/ CacheAdvance

SpecCacheKeys == Init /\ [][NextCacheKeys]_vars

(***************************************************************************)
(* Both components called by concurrent threads.  Every public method is   *)
(* "with self.lock: body": the thread waits at the with-statement, enters  *)
(* when the lock of the component is free, runs the body wholly under the  *)
(* lock and releases it on leaving the with-block, by return or by         *)
(* exception alike.  Which method a thread is in matters only for what its *)
(* body does, so the method is told apart when the body takes effect, as   *)
(* the thread leaves.  is_allowed goes through the steps above.  The       *)
(* cleanup thread of NewsCache sleeps, then takes the cache's lock for one *)
(* round.  The threads start when the first sleep of the cleanup thread is *)
(* over.                                                                   *)
(***************************************************************************)
CleanupThread == NumThreads + 1
AllThreads == Threads \cup {CleanupThread}

LimiterMethods ==
    {"add_vip_user", "remove_vip_user", "reset_user_limits", "reset_global_limits",
     "update_limits", "get_user_stats", "get_global_stats"}
CacheMethods == {"set", "get", "invalidate", "clear", "get_stats"}

CacheLockAvailable(t) == cache_lock = 0 \/ cache_lock = t

CacheRelease(t) == cache_lock' = IF cache_lock = t THEN 0 ELSE cache_lock

\* The arguments the concurrent callers pass.
LockUsers == {1}
LockLimitUpdates == {[general |-> GeneralLimit + 1]}

CallLimiter(t) ==
    /\ pc[t] = "idle"
    /\ pc' = [pc EXCEPT ![t] = "wait_limiter"]
    /\ UNCHANGED <<now, limiterVars, denials, lock, cache_lock, frame, cacheVars>>

EnterLimiter(t) ==
    /\ pc[t] = "wait_limiter"
    /\ LockAvailable(t)
    /\ lock' = t
    /\ pc' = [pc EXCEPT ![t] = "in_limiter"]
    /\ UNCHANGED <<now, limiterVars, denials, cache_lock, frame, cacheVars>>

LimiterBody(m) ==
    \/ m = "add_vip_user" /\ \E u \in LockUsers : add_vip_user(u)
    \/ m = "remove_vip_user" /\ \E u \in LockUsers : remove_vip_user(u)
    \/ m = "reset_user_limits" /\ \E u \in LockUsers : reset_user_limits(u, NoOperation)
    \/ m = "reset_global_limits" /\ reset_global_limits(NoOperation)
    \/ m = "update_limits" /\ \E ol \in LockLimitUpdates : update_limits(ol, EmptyDict)
    \/ m \in {"get_user_stats", "get_global_stats"} /\ UNCHANGED <<now, limiterVars>>

LeaveLimiter(t, m) ==
    /\ pc[t] = "in_limiter"
    /\ LimiterBody(m)
    /\ Release(t)
    /\ pc' = [pc EXCEPT ![t] = "idle"]
    /\ UNCHANGED <<denials, cache_lock, frame, cacheVars>>

CallCache(t) ==
    /\ pc[t] = "idle"
    /\ pc' = [pc EXCEPT ![t] = "wait_cache"]
    /\ UNCHANGED <<now, limiterVars, denials, lock, cache_lock, frame, cacheVars>>

EnterCache(t) ==
    /\ pc[t] = "wait_cache"
    /\ CacheLockAvailable(t)
    /\ cache_lock' = t
    /\ pc' = [pc EXCEPT ![t] = "in_cache"]
    /\ UNCHANGED <<now, limiterVars, denials, lock, frame, cacheVars>>

CacheBody(m) ==
    \/ m = "set" /\ \E content \in Contents : set(content, FillValue, "analysis", None)
    \/ m = "get" /\ \E content \in Contents : get(content, "analysis")
    \/ m = "invalidate" /\ \E content \in Contents : invalidate(content, "analysis")
    \/ m = "clear" /\ clear(NoOperation)
    \/ m = "get_stats" /\ UNCHANGED cacheVars /\ CacheFrame
    \/ m = "cleanup_worker" /\ cleanup_worker

LeaveCache(t, m) ==
    /\ pc[t] = "in_cache"
    /\ CacheBody(m)
    /\ CacheRelease(t)
    /\ pc' = [pc EXCEPT ![t] = "idle"]
    /\ UNCHANGED <<lock, frame>>

\* time.sleep(300) of the cleanup thread is over.
Wake ==
    /\ pc[CleanupThread] = "idle"
    /\ now >= last_sweep + sweep_interval
    /\ pc' = [pc EXCEPT ![CleanupThread] = "wait_cache"]
    /\ UNCHANGED <<now, limiterVars, denials, lock, cache_lock, frame, cacheVars>>

\* The steps of a calling thread inside is_allowed.
CheckStepOf(t) ==
    \/ \E u \in LockUsers, o \in Operations : Call(t, u, o)
    \/ Acquire(t)
    \/ CheckUser(t)
    \/ CheckGlobal(t)
    \/ Record(t)

\* The steps thread t can take.
StepOf(t) ==
    \/ t \in Threads /\ CheckStepOf(t) /\ UNCHANGED <<cache_lock, cacheVars>>
    \/ t \in Threads /\ CallLimiter(t)
    \/ t \in Threads /\ EnterLimiter(t)
    \/ t \in Threads /\ \E m \in LimiterMethods : LeaveLimiter(t, m)
    \/ t \in Threads /\ CallCache(t)
    \/ t = CleanupThread /\ Wake
    \/ EnterCache(t)
    \/ t \in Threads /\ \E m \in CacheMethods : LeaveCache(t, m)
    \/ t = CleanupThread /\ LeaveCache(t, "cleanup_worker")

InitLocks ==
    /\ now = sweep_interval
    /\ user_operations = EmptyDict
    /\ global_operations = EmptyDict
    /\ last_cleanup = 0
    /\ operation_limits = InitOperationLimits
    /\ global_limits = InitGlobalLimits
    /\ vip_users = {}
    /\ last = NoCall
    /\ denials = [k \in Users \X Operations |-> NoDenial]
    /\ lock = 0
    /\ cache_lock = 0
    /\ pc = [t \in AllThreads |-> "idle"]
    /\ frame = [t \in AllThreads |-> NoFrame]
    /\ InitCache

NextLocks == \E t \in AllThreads : StepOf(t)

SpecLocks == InitLocks /\ [][NextLocks]_vars

(***************************************************************************)
(* The bot's handler of text messages (src/src/newschecker/bot/handlers.py *)
(* analyze_news, extract_text_from_url, analyze_news_content), one update  *)
(* at a time, step by step; the clock and the cache's cleanup thread run   *)
(* in between.  frame[1] holds the locals of the running or latest update  *)
(* and what it did.  The security validator, the database and the network  *)
(* are outside: each of their answers is a choice.                         *)
(***************************************************************************)
BotLimits ==
    [text_analysis |-> BotTextLimit, url_analysis |-> BotUrlLimit,
     general |-> GeneralLimit]

BotFrame ==
    [user |-> 0, message |-> "", rate_check |-> "none", url_get |-> "none",
     fetched |-> FALSE, url_set |-> "none", news_content |-> None,
     decorator_check |-> "none", analysis_get |-> "none", generated |-> FALSE,
     analysis_set |-> "none", reply |-> "none"]

\* The analysis the model's AI writes.
Analysis == "abcdefgh"

\* if cached_content: / if cached_analysis:
Truthy(value) == value # None /\ value[1] # ""

BotGoes(position, f) ==
    /\ pc' = [pc EXCEPT ![1] = position]
    /\ frame' = [frame EXCEPT ![1] = f]
    /\ UNCHANGED <<lock, cache_lock>>

BotReplies(reply, f) == BotGoes("idle", [f EXCEPT !.reply = reply])

LimiterUntouched == UNCHANGED <<now, limiterVars, denials>>

Receive ==
    /\ pc[1] = "idle"
    /\ \E u \in LockUsers, text \in UrlMessages \cup TextMessages :
           BotGoes("rate_check", [BotFrame EXCEPT !.user = u, !.message = text])
    /\ LimiterUntouched
    /\ UNCHANGED cacheVars

\* analyze_news, lines 545-557
RateCheck ==
    /\ pc[1] = "rate_check"
    /\ LET f == frame[1]
           operation == IF f.message \in UrlMessages THEN "url_analysis"
                                                     ELSE "text_analysis"
       IN  /\ is_allowed(f.user, operation)
           /\ IF ~last'.result.allowed
              THEN BotReplies("denied", [f EXCEPT !.rate_check = "denied"])
              ELSE IF f.message \in UrlMessages
              THEN BotGoes("url_get", [f EXCEPT !.rate_check = "allowed"])
              ELSE BotGoes("decorator_check",
                           [f EXCEPT !.rate_check = "allowed",
                                     !.news_content = Some(f.message)])
    /\ UNCHANGED <<denials, cacheVars>>

\* extract_text_from_url, lines 217-226: the security check of the
\* decorator, then the cached content if there is one
UrlGet ==
    /\ pc[1] = "url_get"
    /\ LET f == frame[1]
           r == GetResult(Store, Str(f.message), "url_content", now)
       IN  \/ /\ BotReplies("no_content", f)
              /\ LimiterUntouched
              /\ UNCHANGED cacheVars
           \/ /\ get(Str(f.message), "url_content")
              /\ IF Truthy(r.value)
                 THEN BotGoes("decorator_check",
                              [f EXCEPT !.url_get = r.outcome, !.news_content = r.value])
                 ELSE BotGoes("fetch", [f EXCEPT !.url_get = r.outcome])

\* lines 228-242: the page is fetched and its text sanitized, or the
\* request raises and None is returned
Fetch ==
    /\ pc[1] = "fetch"
    /\ LET f == [frame[1] EXCEPT !.fetched = TRUE]
       IN  \/ BotReplies("no_content", f)
           \/ \E text \in PageTexts :
                  BotGoes("url_set", [f EXCEPT !.news_content = Some(text)])
    /\ LimiterUntouched
    /\ UNCHANGED cacheVars

\* line 244 and analyze_news, lines 565-571
UrlSet ==
    /\ pc[1] = "url_set"
    /\ LET f == frame[1]
           content == f.news_content[1]
           r == SetResult(Store, Str(f.message), content, "url_content", None, now)
           g == [f EXCEPT !.url_set = IF r.stored THEN "stored" ELSE "rejected"]
       IN  /\ set(Str(f.message), content, "url_content", None)
           /\ IF content = "" THEN BotReplies("no_content", g)
                              ELSE BotGoes("decorator_check", g)

\* rate_limit_check('text_analysis') around analyze_news_content
DecoratorCheck ==
    /\ pc[1] = "decorator_check"
    /\ LET f == frame[1]
       IN  /\ is_allowed(f.user, "text_analysis")
           /\ IF last'.result.allowed
              THEN BotGoes("analysis_get", [f EXCEPT !.decorator_check = "allowed"])
              ELSE BotReplies("none", [f EXCEPT !.decorator_check = "denied"])
    /\ UNCHANGED <<denials, cacheVars>>

\* analyze_news_content, lines 296-317: the content is validated, then the
\* cached analysis is sent if there is one
AnalysisGet ==
    /\ pc[1] = "analysis_get"
    /\ LET f == frame[1]
           r == GetResult(Store, Str(f.news_content[1]), "analysis", now)
       IN  \/ /\ BotReplies("unsafe", f)
              /\ LimiterUntouched
              /\ UNCHANGED cacheVars
           \/ /\ get(Str(f.news_content[1]), "analysis")
              /\ IF Truthy(r.value)
                 THEN BotReplies("cached", [f EXCEPT !.analysis_get = r.outcome])
                 ELSE BotGoes("generate", [f EXCEPT !.analysis_get = r.outcome])

\* lines 319-400: the database knows the content, or the sources are
\* searched and the AI writes the analysis, or one of the calls raises
Generate ==
    /\ pc[1] = "generate"
    /\ LET f == frame[1]
       IN  \/ BotReplies("duplicate", f)
           \/ BotReplies("error", [f EXCEPT !.generated = TRUE])
           \/ BotGoes("analysis_set", [f EXCEPT !.generated = TRUE])
    /\ LimiterUntouched
    /\ UNCHANGED cacheVars

\* lines 402-422
AnalysisSet ==
    /\ pc[1] = "analysis_set"
    /\ LET f == frame[1]
           r == SetResult(Store, Str(f.news_content[1]), Analysis, "analysis", None, now)
       IN  /\ set(Str(f.news_content[1]), Analysis, "analysis", None)
           /\ BotReplies("analysis",
                         [f EXCEPT !.analysis_set = IF r.stored THEN "stored"
                                                                ELSE "rejected"])

InitBot ==
    /\ now = 0
    /\ user_operations = EmptyDict
    /\ global_operations = EmptyDict
    /\ last_cleanup = 0
    /\ operation_limits = BotLimits
    /\ global_limits = BotLimits
    /\ vip_users = {}
    /\ last = NoCall
    /\ denials = [k \in Users \X Operations |-> NoDenial]
    /\ lock = 0
    /\ cache_lock = 0
    /\ pc = [h \in {1} |-> "idle"]
    /\ frame = [h \in {1} |-> BotFrame]
    /\ InitCache

BotAdvance == Tick(sweep_interval, MaxCacheTicks)

NextBot ==
    \/ Receive
    \/ RateCheck
    \/ UrlGet
    \/ Fetch
    \/ UrlSet
    \/ DecoratorCheck
    \/ AnalysisGet
    \/ Generate
    \/ AnalysisSet
    \/ CacheSweep
    \/ BotAdvance

SpecBot == InitBot /\ [][NextBot]_vars

(***************************************************************************)
(* The bot handling photos as well (handle_photo): the Check of            *)
(* image_analysis, the download and the text recognition, then             *)
(* analyze_news_content with the text found.                               *)
(***************************************************************************)
BotImageLimit == 1
PhotoMessages == {"photo"}
OcrTexts == {"", "abcd"}

QuotaLimits ==
    [text_analysis |-> BotTextLimit, url_analysis |-> BotUrlLimit,
     image_analysis |-> BotImageLimit, general |-> GeneralLimit]

ReceivePhoto ==
    /\ pc[1] = "idle"
    /\ \E u \in LockUsers, photo \in PhotoMessages :
           BotGoes("photo_check", [BotFrame EXCEPT !.user = u, !.message = photo])
    /\ LimiterUntouched
    /\ UNCHANGED cacheVars

\* handle_photo, lines 489-495
PhotoCheck ==
    /\ pc[1] = "photo_check"
    /\ LET f == frame[1]
       IN  /\ is_allowed(f.user, "image_analysis")
           /\ IF last'.result.allowed
              THEN BotGoes("ocr", [f EXCEPT !.rate_check = "allowed"])
              ELSE BotReplies("denied", [f EXCEPT !.rate_check = "denied"])
    /\ UNCHANGED <<denials, cacheVars>>

\* lines 497-525: the download or the recognition raises, or no text is
\* found, or the text found goes to analyze_news_content
Ocr ==
    /\ pc[1] = "ocr"
    /\ LET f == frame[1]
       IN  \/ BotReplies("error", f)
           \/ \E text \in OcrTexts :
                  IF text = ""
                  THEN BotReplies("no_text", f)
                  ELSE BotGoes("decorator_check", [f EXCEPT !.news_content = Some(text)])
    /\ LimiterUntouched
    /\ UNCHANGED cacheVars

InitBotQuota ==
    /\ now = 0
    /\ user_operations = EmptyDict
    /\ global_operations = EmptyDict
    /\ last_cleanup = 0
    /\ operation_limits = QuotaLimits
    /\ global_limits = QuotaLimits
    /\ vip_users = {}
    /\ last = NoCall
    /\ denials = [k \in Users \X Operations |-> NoDenial]
    /\ lock = 0
    /\ cache_lock = 0
    /\ pc = [h \in {1} |-> "idle"]
    /\ frame = [h \in {1} |-> BotFrame]
    /\ InitCache

NextBotQuota ==
    \/ Receive
    \/ RateCheck
    \/ UrlGet
    \/ Fetch
    \/ UrlSet
    \/ ReceivePhoto
    \/ PhotoCheck
    \/ Ocr
    \/ DecoratorCheck
    \/ AnalysisGet
    \/ Generate
    \/ AnalysisSet
    \/ CacheSweep
    \/ BotAdvance

SpecBotQuota == InitBotQuota /\ [][NextBotQuota]_vars

(***************************************************************************)
(* The cache given dicts (search results, source verifications): set keeps *)
(* the object it is passed in the entry ('value': value) and get returns   *)
(* entry['value'], the same object; the caller holds the object too and    *)
(* may change it afterwards.                                               *)
(***************************************************************************)
ObjectIds == {"dict1", "dict2"}
ObjectTexts == {"{}", "{\"a\": 1}"}

InitAlias ==
    /\ now = 0
    /\ user_operations = EmptyDict
    /\ global_operations = EmptyDict
    /\ last_cleanup = 0
    /\ operation_limits = InitOperationLimits
    /\ global_limits = InitGlobalLimits
    /\ vip_users = {}
    /\ last = NoCall
    /\ denials = [k \in Users \X Operations |-> NoDenial]
    /\ lock = 0
    /\ cache_lock = 0
    /\ pc = [t \in {} |-> "idle"]
    /\ frame = [t \in {} |-> NoFrame]
    /\ cache = EmptyDict
    /\ access_times = <<>>
    /\ memory_usage_bytes = 0
    /\ last_sweep = 0
    /\ cache_last = NoCacheCall
    /\ stats_added = NothingAdded
    /\ heap \in [ObjectIds -> ObjectTexts]

AliasSet ==
    \E content \in FillContents, value \in ObjectIds :
        set(content, value, "analysis", None) /\ UNCHANGED threadVars
AliasGet == \E content \in FillContents : get(content, "analysis") /\ UNCHANGED threadVars

\* The caller changes a dict it holds.
Mutate ==
    /\ \E o \in ObjectIds, text \in ObjectTexts :
           /\ heap[o] # text
           /\ heap' = [heap EXCEPT ![o] = text]
    /\ UNCHANGED <<now, limiterVars, denials, threadVars, cache, access_times,
                   memory_usage_bytes, last_sweep, cache_last, stats_added>>

NextAlias ==
    \/ AliasSet
    \/ AliasGet
    \/ Mutate

SpecAlias == InitAlias /\ [][NextAlias]_vars

(***************************************************************************)
(* Properties of the quota manager.                                        *)
(***************************************************************************)
\* The timestamps of a queue that lie inside the window ending at t.
WindowOf(queue, t) ==
    LET Inside(x) == x > t - window_size
    IN  SelectSeq(queue, Inside)

UserWindow(u, o) == WindowOf(UserQueue(user_operations, u, o), now)
GlobalWindow(o) == WindowOf(GlobalQueue(global_operations, o), now)
UserCount(u, o) == Len(UserWindow(u, o))
GlobalCount(o) == Len(GlobalWindow(o))

\* The limits a Check of (u, o) is specified to apply.
BaseLimit(o) == IF o \in DOMAIN operation_limits
                THEN operation_limits[o] ELSE operation_limits["general"]
ExpectedUserLimit(u, o) ==
    IF u \in vip_users THEN BaseLimit(o) * vip_multiplier ELSE BaseLimit(o)
ExpectedGlobalLimit(o) == IF o \in DOMAIN global_limits
                          THEN global_limits[o] ELSE global_limits["general"]

\* This step is a Check of (u, o) that returned to its caller.
Called(u, o) ==
    /\ last' # last
    /\ last'.user = u
    /\ last'.operation = o
    /\ last'.time = now

DeniedFor(r, reason) == ~r.allowed /\ r.reason = reason

\* The largest number of timestamps of a queue inside one window.
FitsEveryWindow(queue, limit) ==
    \A i \in 1..Len(queue) :
        Cardinality({j \in 1..Len(queue) :
                        queue[j] > queue[i] - window_size /\ queue[j] <= queue[i]})
            <= limit

\* C1: whatever the interleaving of concurrent is_allowed calls, at most one
\* thread is inside the locked body, and no window of window_size seconds
\* holds more admitted timestamps of a subject than the subject's limit.
C1_SerializedAdmission ==
    /\ \A t1, t2 \in Threads :
          (pc[t1] \notin {"idle", "waiting"} /\ pc[t2] \notin {"idle", "waiting"})
              => t1 = t2
    /\ \A u \in Users, o \in Operations :
          FitsEveryWindow(UserQueue(user_operations, u, o), ExpectedUserLimit(u, o))

\* C1 witness: two calls for the same subject and operation are in progress
\* while one slot is left; one is about to record, the other waits.
C1_Witness ==
    \E t1, t2 \in Threads :
        /\ pc[t1] = "record"
        /\ pc[t2] = "waiting"
        /\ frame[t1].user = frame[t2].user
        /\ frame[t1].operation = frame[t2].operation
        /\ UserCount(frame[t1].user, frame[t1].operation) + 1
              = ExpectedUserLimit(frame[t1].user, frame[t1].operation)

\* C2: quota atomicity. A Check of a subject below its limit, with global
\* budget left, is allowed and counts once; a Check of a subject at its limit
\* is denied with user_limit_exceeded, reports the count, and leaves the
\* subject's window as it was: no timestamp is appended.
C2_QuotaAtomicity ==
    [][\A u \in Users, o \in Operations :
          Called(u, o) =>
             LET n == UserCount(u, o)
                 L == ExpectedUserLimit(u, o)
                 r == last'.result
             IN  /\ (n < L /\ GlobalCount(o) < ExpectedGlobalLimit(o)) =>
                        /\ r.allowed
                        /\ UserWindow(u, o)' = Append(UserWindow(u, o), now)
                 /\ n >= L =>
                        /\ DeniedFor(r, "user_limit_exceeded")
                        /\ r.current_count = n
                        /\ UserWindow(u, o)' = UserWindow(u, o)
                        /\ Len(UserQueue(user_operations, u, o)')
                              <= Len(UserQueue(user_operations, u, o))]_vars

\* C2 witness: a subject with a limit of at least two was denied at its limit
\* and still has exactly that many timestamps in the window.
C2_Witness ==
    \E u \in Users, o \in Operations :
        /\ last.user = u /\ last.operation = o /\ last.time = now
        /\ DeniedFor(last.result, "user_limit_exceeded")
        /\ ExpectedUserLimit(u, o) >= 2
        /\ last.result.current_count = ExpectedUserLimit(u, o)
        /\ UserCount(u, o) = ExpectedUserLimit(u, o)

\* C3: quota independence. A Check denied with user_limit_exceeded leaves the
\* global window of every operation unchanged and appends nothing to it.
C3_UserDenialKeepsGlobal ==
    [][\A u \in Users, o \in Operations :
          (Called(u, o) /\ DeniedFor(last'.result, "user_limit_exceeded")) =>
             \A g \in Operations :
                /\ GlobalWindow(g)' = GlobalWindow(g)
                /\ Len(GlobalQueue(global_operations, g)')
                      <= Len(GlobalQueue(global_operations, g))]_vars

\* C3 witness: a denial for the user limit while the global window holds
\* requests and still has budget.
C3_Witness ==
    \E o \in Operations :
        /\ last.operation = o /\ last.time = now
        /\ DeniedFor(last.result, "user_limit_exceeded")
        /\ GlobalCount(o) >= 1
        /\ GlobalCount(o) < ExpectedGlobalLimit(o)

\* C4: a Check denied with global_limit_exceeded appends no timestamp to any
\* subject window nor to the global window.
C4_GlobalDenialRecordsNothing ==
    [][\A u \in Users, o \in Operations :
          (Called(u, o) /\ DeniedFor(last'.result, "global_limit_exceeded")) =>
             /\ \A v \in Users, g \in Operations :
                   /\ UserWindow(v, g)' = UserWindow(v, g)
                   /\ Len(UserQueue(user_operations, v, g)')
                         <= Len(UserQueue(user_operations, v, g))
             /\ \A g \in Operations :
                   /\ GlobalWindow(g)' = GlobalWindow(g)
                   /\ Len(GlobalQueue(global_operations, g)')
                         <= Len(GlobalQueue(global_operations, g))]_vars

\* C4 witness: a subject below its own limit was denied for the global limit.
C4_Witness ==
    \E u \in Users, o \in Operations :
        /\ last.user = u /\ last.operation = o /\ last.time = now
        /\ DeniedFor(last.result, "global_limit_exceeded")
        /\ UserCount(u, o) < ExpectedUserLimit(u, o)
        /\ GlobalCount(o) = ExpectedGlobalLimit(o)

\* C5: VIP scaling. With global budget left, a Check is denied with
\* user_limit_exceeded exactly when the subject's window holds at least
\* base limit times VIP multiplier timestamps (VIP) or base limit (others),
\* and the denial reports that limit.
C5_VipScaling ==
    [][\A u \in Users, o \in Operations :
          Called(u, o) =>
             LET n == UserCount(u, o)
                 limit == IF u \in vip_users
                          THEN BaseLimit(o) * vip_multiplier
                          ELSE BaseLimit(o)
                 r == last'.result
             IN  /\ DeniedFor(r, "user_limit_exceeded") <=> n >= limit
                 /\ DeniedFor(r, "user_limit_exceeded") =>
                        r.limit = limit /\ r.is_vip = (u \in vip_users)
                 /\ r.allowed => r.user_limit = limit]_vars

\* C5 witness: a VIP subject denied with exactly base * multiplier requests
\* in its window, more than the base limit.
C5_Witness ==
    \E u \in vip_users, o \in Operations :
        /\ last.user = u /\ last.operation = o /\ last.time = now
        /\ DeniedFor(last.result, "user_limit_exceeded")
        /\ last.result.is_vip
        /\ UserCount(u, o) = BaseLimit(o) * vip_multiplier
        /\ UserCount(u, o) > BaseLimit(o)

\* C6: with the limit tables as configured, no window of window_size seconds
\* holds more timestamps of an operation's global queue than the operation's
\* global limit, whoever was admitted.
C6_GlobalLimitHolds ==
    \A o \in Operations :
        FitsEveryWindow(GlobalQueue(global_operations, o), ExpectedGlobalLimit(o))

\* C6 witness: the global window is full with requests of a VIP and of a
\* non-VIP subject.
C6_Witness ==
    \E o \in Operations, u \in vip_users, v \in Users \ vip_users :
        /\ GlobalCount(o) = ExpectedGlobalLimit(o)
        /\ UserCount(u, o) >= 1
        /\ UserCount(v, o) >= 1

\* C7: every denial reports 0 <= retry_after <= window_size, and retry_after
\* is window_size minus the age of the oldest timestamp inside the window
\* that caused the denial.
C7_RetryAfter ==
    [][\A u \in Users, o \in Operations :
          (Called(u, o) /\ ~last'.result.allowed) =>
             LET r == last'.result
                 w == IF r.reason = "user_limit_exceeded"
                      THEN UserWindow(u, o) ELSE GlobalWindow(o)
             IN  /\ 0 <= r.retry_after
                 /\ r.retry_after <= window_size
                 /\ w # <<>> =>
                       /\ \A i \in 1..Len(w) : w[1] <= w[i]
                       /\ r.retry_after = window_size - (now - w[1])]_vars

\* C7 witness: a denial whose oldest in-window timestamp is some seconds old.
C7_Witness ==
    /\ ~last.result.allowed
    /\ last.result.reason = "global_limit_exceeded"
    /\ last.time = now
    /\ last.result.retry_after > 0
    /\ last.result.retry_after < window_size

\* C8 as claimed: a denial of (u, o) that follows an earlier denial of (u, o)
\* with no admission of o in between never reports a greater retry_after.
C8_RetryAfterNeverGrows ==
    [][\A u \in Users, o \in Operations :
          (/\ Called(u, o)
           /\ ~last'.result.allowed
           /\ denials[<<u, o>>].time # -1
           /\ denials[<<u, o>>].time < now) =>
             last'.result.retry_after <= denials[<<u, o>>].retry_after]_vars

\* C8 as amended: the same, for two denials for the same reason and limit of
\* which the first reported a window exactly at that limit.
C8_RetryAfterMonotone ==
    [][\A u \in Users, o \in Operations :
          (/\ Called(u, o)
           /\ ~last'.result.allowed
           /\ SameLimitDenials(denials[<<u, o>>], last'.result, now)) =>
             last'.result.retry_after <= denials[<<u, o>>].retry_after]_vars

\* C8 witness: a denial that followed an earlier one for the same reason and
\* limit, later in the same window.
C8_Witness ==
    \E u \in Users, o \in Operations :
        /\ denials[<<u, o>>].follows
        /\ denials[<<u, o>>].time = now
        /\ denials[<<u, o>>].retry_after < window_size

(***************************************************************************)
(* Properties of the cache.                                                *)
(***************************************************************************)
\* This step is a call of the NewsCache method op on key k that returned.
CacheCalled(op, k) ==
    /\ cache_last' # cache_last
    /\ cache_last'.op = op
    /\ cache_last'.key = k

\* The TTL a Set of the category is specified to use.
ExpectedTtl(cache_type, custom_ttl) ==
    IF custom_ttl # None THEN custom_ttl[1] ELSE ttl_config[cache_type]

\* C9: a Set with TTL t > 0 stores the value with createdAt = now and
\* expiresAt = createdAt + t; the entry keeps them until it is set again or
\* removed; a Get of the entry at now <= createdAt + t returns the stored
\* value and keeps the entry, a Get at now > createdAt + t returns absent,
\* removes the entry and takes its size off usedBytes.
C9_CacheTtl ==
    [][/\ \A content \in Contents, value \in Values, cache_type \in CacheTypes,
             custom_ttl \in CustomTtls :
              (/\ CacheCalled("set", KeyOf[content, cache_type])
               /\ cache_last'.outcome = "stored"
               /\ set(content, value, cache_type, custom_ttl)) =>
                  LET e == cache'[KeyOf[content, cache_type]]
                      t == ExpectedTtl(cache_type, custom_ttl)
                  IN  /\ e.value = value
                      /\ e.created_time = now
                      /\ t > 0 => e.expiry_time = Some(e.created_time + t)
       /\ \A k \in DOMAIN cache \cap DOMAIN cache' :
              cache'[k] # cache[k] => cache_last'.op = "set" /\ cache_last'.key = k
       /\ \A content \in Contents, cache_type \in CacheTypes :
              LET k == KeyOf[content, cache_type]
              IN  (/\ CacheCalled("get", k)
                   /\ get(content, cache_type)
                   /\ k \in DOMAIN cache
                   /\ cache[k].expiry_time # None) =>
                      IF now <= cache[k].expiry_time[1]
                      THEN /\ cache_last'.value = Some(cache[k].value)
                           /\ k \in DOMAIN cache'
                           /\ memory_usage_bytes' = memory_usage_bytes
                      ELSE /\ cache_last'.value = None
                           /\ k \notin DOMAIN cache'
                           /\ memory_usage_bytes' = memory_usage_bytes - cache[k].size
      ]_vars

\* A Get found its entry past its expiry time, returned absent and removed it.
C9_Witness ==
    /\ cache_last.op = "get"
    /\ cache_last.outcome = "expired"
    /\ cache_last.value = None
    /\ cache_last.key \notin DOMAIN cache

\* C10: after a Set usedBytes is within limitBytes, except for one insertion
\* that fits alone and began with usedBytes within the limit (the excess of
\* an earlier insertion having been brought back before this Set).
C10_MemoryBound ==
    [][\A content \in Contents, value \in Values, cache_type \in CacheTypes,
          custom_ttl \in CustomTtls :
           (/\ CacheCalled("set", KeyOf[content, cache_type])
            /\ set(content, value, cache_type, custom_ttl)) =>
               \/ memory_usage_bytes' <= max_memory_bytes
               \/ /\ calculate_size(value) <= max_memory_bytes
                  /\ memory_usage_bytes <= max_memory_bytes
      ]_vars

\* The call that returned last in this step was method op on key k; a cheap
\* test made before the action formula of the method is evaluated.
CacheReturned(op, k) == cache_last'.op = op /\ cache_last'.key = k

\* C11: no Set returns true for a value whose size exceeds limitBytes,
\* whether its key is new or already present.
C11_NoOversizedAccepted ==
    [][\A content \in Contents, value \in Values, cache_type \in CacheTypes,
          custom_ttl \in CustomTtls :
           (/\ CacheReturned("set", KeyOf[content, cache_type])
            /\ cache_last'.outcome = "stored"
            /\ set(content, value, cache_type, custom_ttl)) =>
               calculate_size(value) <= max_memory_bytes
      ]_vars

\* The sum of the sizes of the entries of a cache dict.
RECURSIVE SumSizes(_)
SumSizes(c) ==
    IF DOMAIN c = {} THEN 0
    ELSE LET k == CHOOSE x \in DOMAIN c : TRUE
         IN  c[k].size + SumSizes(Restrict(c, DOMAIN c \ {k}))

\* C13: in every reachable state of the cache usedBytes is the sum of the
\* sizes of the entries present, and it is never negative.
C13_UsageIsSumOfSizes ==
    /\ memory_usage_bytes = SumSizes(cache)
    /\ memory_usage_bytes >= 0

\* An entry was removed while another one stays, its size still counted.
C13_Witness ==
    /\ cache_last.op = "invalidate"
    /\ cache_last.outcome = "removed"
    /\ cache # EmptyDict
    /\ memory_usage_bytes > 0

\* C14: a Set that returns false leaves the set of entries, their values and
\* usedBytes as they were before the call.
C14_RejectedSetChangesNothing ==
    [][\A content \in Contents, value \in Values, cache_type \in CacheTypes,
          custom_ttl \in CustomTtls :
           (/\ CacheReturned("set", KeyOf[content, cache_type])
            /\ cache_last'.outcome = "rejected"
            /\ set(content, value, cache_type, custom_ttl)) =>
               /\ cache' = cache
               /\ memory_usage_bytes' = memory_usage_bytes
      ]_vars

\* The access time access_times holds for a key.
AccessTimeOf(at, k) == at[CHOOSE i \in 1..Len(at) : at[i].key = k].time

\* C12: a Set of a new key that would exceed limitBytes evicts the least
\* recently accessed entries and is then inserted: with two entries present,
\* accessed at different times, each of the size s of the new value, where
\* 2s <= 0.8 * limitBytes < limitBytes < 3s, the Set returns true and leaves
\* exactly the new entry and the more recently accessed of the two.
C12_EvictsThenInserts ==
    [][\A content \in FillContents, cache_type \in CacheTypes :
           LET k == KeyOf[content, cache_type]
               s == calculate_size(FillValue)
           IN  (/\ CacheReturned("set", k)
                /\ set(content, FillValue, cache_type, None)
                /\ k \notin DOMAIN cache
                /\ Cardinality(DOMAIN cache) = 2
                /\ \A x \in DOMAIN cache : cache[x].size = s
                /\ 3 * s > max_memory_bytes
                /\ 10 * 2 * s <= 8 * max_memory_bytes
                /\ \A x, y \in DOMAIN cache :
                       x # y => AccessTimeOf(access_times, x) # AccessTimeOf(access_times, y)) =>
                   /\ cache_last'.outcome = "stored"
                   /\ \E recent \in DOMAIN cache :
                          /\ \A x \in DOMAIN cache :
                                 AccessTimeOf(access_times, x) <= AccessTimeOf(access_times, recent)
                          /\ DOMAIN cache' = {k, recent}
      ]_vars

\* Two contents with the same canonical form: equal strings, or structured
\* values with the same fields and values, in any order.
SameCanonicalForm(c1, c2) ==
    /\ c1.kind = c2.kind
    /\ c1.text = c2.text
    /\ {c1.items[i] : i \in 1..Len(c1.items)} = {c2.items[i] : i \in 1..Len(c2.items)}

\* C15: a stored Set(category, content, v) makes v the value held for every
\* content of the same canonical form in that category and creates or
\* changes no entry of another category for that content; contents of
\* different canonical forms have different keys; a Get returns the value
\* held under its key, absent when none is held or it has expired; and a
\* key is held only after a Set of it, so a key never set reads absent.
C15_KeyStability ==
    [][/\ \A content \in SetKeyContents, value \in Values, cache_type \in CacheTypes :
              (/\ CacheReturned("set", KeyOf[content, cache_type])
               /\ cache_last'.outcome = "stored"
               /\ set(content, value, cache_type, None)) =>
                  /\ \A other \in AllContents :
                         IF SameCanonicalForm(content, other)
                         THEN /\ KeyOf[other, cache_type] \in DOMAIN cache'
                              /\ cache'[KeyOf[other, cache_type]].value = value
                         ELSE KeyOf[other, cache_type] # KeyOf[content, cache_type]
                  /\ \A other_type \in CacheTypes \ {cache_type} :
                         LET k == KeyOf[content, other_type]
                         IN  k \in DOMAIN cache' => (k \in DOMAIN cache /\ cache'[k] = cache[k])
       /\ \A content \in GetKeyContents, cache_type \in CacheTypes :
              LET k == KeyOf[content, cache_type]
              IN  (CacheReturned("get", k) /\ get(content, cache_type)) =>
                      cache_last'.value =
                          IF k \in DOMAIN cache /\ ~(/\ cache[k].expiry_time # None
                                                     /\ now > cache[k].expiry_time[1])
                          THEN Some(cache[k].value) ELSE None
       /\ \A k \in DOMAIN cache' \ DOMAIN cache :
              cache_last'.op = "set" /\ cache_last'.key = k
      ]_vars

\* A Get with the fields in the other order than the Set's hit the entry,
\* while the other category holds nothing for that content.
C15_Witness ==
    /\ cache_last.op = "get"
    /\ cache_last.outcome = "hit"
    /\ \E content \in GetKeyContents :
          /\ content.kind = "dict"
          /\ cache_last.key = KeyOf[content, "analysis"]
          /\ KeyOf[content, "user_stats"] \notin DOMAIN cache

\* C16: Clear(category) removes exactly the entries of that category and
\* leaves every other entry as it was; Clear() removes every entry and sets
\* usedBytes to 0; neither adds to hits, misses, sets or evictions.
C16_ClearFrame ==
    [][\A cache_type \in CacheTypes \cup {NoOperation} :
           (CacheReturned("clear", "") /\ clear(cache_type)) =>
               /\ IF cache_type = NoOperation
                  THEN cache' = EmptyDict /\ memory_usage_bytes' = 0
                  ELSE LET kept == {k \in DOMAIN cache : cache[k].cache_type # cache_type}
                       IN  /\ DOMAIN cache' = kept
                           /\ \A k \in kept : cache'[k] = cache[k]
                           /\ memory_usage_bytes' = SumSizes(Restrict(cache, kept))
               /\ stats_added' = NothingAdded
      ]_vars

\* A Clear of one category has left an entry of the other category.
C16_Witness ==
    /\ cache_last.op = "clear"
    /\ cache # EmptyDict
    /\ stats_added = NothingAdded

(***************************************************************************)
(* Properties of the administration of the quota manager.                  *)
(***************************************************************************)
\* C17 as claimed: after UpdateLimits(T) with a table T the per-operation
\* limit table is exactly T, operations T does not list having lost their
\* limits.
C17_UpdateReplacesTable ==
    [][\A ol \in OperationLimitUpdates, gl \in GlobalLimitUpdates :
           (ol # EmptyDict /\ update_limits(ol, gl)) => operation_limits' = ol
      ]_vars

\* C17 amended: UpdateLimits(T) gives the operations T lists the limits of T
\* and leaves every other operation the limit it had, in the per-operation
\* and in the global table; a later Check applies the limits of the table
\* so merged.
C17_UpdateMergesTable ==
    [][/\ \A ol \in OperationLimitUpdates, gl \in GlobalLimitUpdates :
              update_limits(ol, gl) =>
                  /\ DOMAIN operation_limits' = DOMAIN operation_limits \cup DOMAIN ol
                  /\ \A o \in DOMAIN ol : operation_limits'[o] = ol[o]
                  /\ \A o \in DOMAIN operation_limits \ DOMAIN ol :
                         operation_limits'[o] = operation_limits[o]
                  /\ DOMAIN global_limits' = DOMAIN global_limits \cup DOMAIN gl
                  /\ \A o \in DOMAIN gl : global_limits'[o] = gl[o]
                  /\ \A o \in DOMAIN global_limits \ DOMAIN gl :
                         global_limits'[o] = global_limits[o]
       /\ \A u \in Users, o \in Operations :
              Called(u, o) =>
                  LET r == last'.result
                  IN  /\ r.allowed => /\ r.user_limit = ExpectedUserLimit(u, o)
                                      /\ r.global_limit = ExpectedGlobalLimit(o)
                      /\ DeniedFor(r, "user_limit_exceeded") =>
                             r.limit = ExpectedUserLimit(u, o)
                      /\ DeniedFor(r, "global_limit_exceeded") =>
                             r.limit = ExpectedGlobalLimit(o)
      ]_vars

\* After an update that lists only "general", a Check of text_analysis was
\* decided with the limit text_analysis had before, not with the new one.
C17_Witness ==
    /\ operation_limits["general"] = GeneralLimit + 1
    /\ operation_limits["text_analysis"] = TextLimit
    /\ last.operation = "text_analysis"
    /\ last.time = now
    /\ DeniedFor(last.result, "user_limit_exceeded")
    /\ last.result.limit = TextLimit

\* A tracked subject all of whose timestamps are older than window_size.
Stale(u) ==
    /\ u \in DOMAIN user_operations
    /\ \A o \in DOMAIN user_operations[u] :
           \A i \in 1..Len(user_operations[u][o]) :
               user_operations[u][o][i] < now - window_size

InLimiter(t) == pc[t] \in {"check_user", "check_global", "record", "in_limiter"}
AtLimiterLock(t) == pc[t] \in {"waiting", "wait_limiter"}
InCache(t) == pc[t] = "in_cache"
AtCacheLock(t) == pc[t] = "wait_cache"

\* C19: deadlock freedom. Each lock is held exactly by the thread that is
\* inside a method of its component; a thread inside a method holds no
\* other lock, waits for none and can always take its next step, which
\* leads to the release; a thread waiting at a lock can enter, or the lock
\* is held by another thread that is inside and can take its next step. No
\* thread therefore waits for a thread that waits.
C19_DeadlockFree ==
    \A t \in AllThreads :
        /\ InLimiter(t) <=> lock = t
        /\ InCache(t) <=> cache_lock = t
        /\ (InLimiter(t) \/ InCache(t)) => ENABLED StepOf(t)
        /\ AtLimiterLock(t) =>
               \/ ENABLED StepOf(t)
               \/ /\ lock \in AllThreads \ {t}
                  /\ InLimiter(lock)
                  /\ ENABLED StepOf(lock)
        /\ AtCacheLock(t) =>
               \/ ENABLED StepOf(t)
               \/ /\ cache_lock \in AllThreads \ {t}
                  /\ InCache(cache_lock)
                  /\ ENABLED StepOf(cache_lock)

\* Thread 1 is inside is_allowed holding the quota manager's lock while
\* thread 2 waits for the cache's lock, which the cleanup thread holds.
C19_Witness ==
    /\ lock = 1
    /\ pc[1] = "record"
    /\ pc[2] = "wait_cache"
    /\ cache_lock = CleanupThread
    /\ pc[CleanupThread] = "in_cache"

\* The handler's get of the cached content met an entry within its TTL.
BotHit(outcome) == outcome = "hit"
BotMiss(outcome) == outcome \in {"miss", "expired"}

\* C20: admission-gated memoized call. An update has fetched the page only
\* after a Check that allowed it and a Get of the link that missed, and has
\* run the AI only after the Checks allowed it and the Get of the content
\* missed; a denied update and an update whose Get hit have invoked
\* neither; the result obtained after a miss has been stored by the Set.
C20_GatedMemoizedCall ==
    LET f == frame[1]
    IN  /\ f.fetched => f.rate_check = "allowed" /\ BotMiss(f.url_get)
        /\ f.generated => /\ f.rate_check = "allowed"
                          /\ f.decorator_check = "allowed"
                          /\ BotMiss(f.analysis_get)
        /\ f.rate_check = "denied" => ~f.fetched /\ ~f.generated
        /\ BotHit(f.url_get) => ~f.fetched
        /\ BotHit(f.analysis_get) => ~f.generated
        /\ f.url_set # "rejected"
        /\ f.analysis_set # "rejected"

\* C21: values are copied in and out. A caller that changes a dict it
\* passed to Set or received from Get changes nothing of what a Get of any
\* key returns afterwards.
C21_NoAliasing ==
    [][Mutate => \A key \in DOMAIN cache :
                     Deref(cache[key].value)' = Deref(cache[key].value)]_vars

\* C22: the subject limit is evaluated before the global limit. A Check made
\* with both the subject's window and the global window at or above their
\* limits is denied with user_limit_exceeded; a denial with
\* global_limit_exceeded is given only to a subject below its own limit.
C22_UserLimitFirst ==
    [][\A u \in Users, o \in Operations :
          Called(u, o) =>
             LET n == UserCount(u, o)
                 L == ExpectedUserLimit(u, o)
                 g == GlobalCount(o)
                 G == ExpectedGlobalLimit(o)
                 r == last'.result
             IN  /\ (n >= L /\ g >= G) => DeniedFor(r, "user_limit_exceeded")
                 /\ DeniedFor(r, "global_limit_exceeded") => (n < L /\ g >= G)]_vars

\* A subject at its limit was denied for its own limit while the global
\* window was at its limit as well.
C22_Witness ==
    \E u \in Users, o \in Operations :
        /\ last.user = u /\ last.operation = o /\ last.time = now
        /\ DeniedFor(last.result, "user_limit_exceeded")
        /\ UserCount(u, o) >= ExpectedUserLimit(u, o)
        /\ GlobalCount(o) >= ExpectedGlobalLimit(o)

\* The timestamps of a queue that are at most window_size old at time t.
ClosedWindowOf(queue, t) ==
    LET NotOlder(x) == x >= t - window_size
    IN  SelectSeq(queue, NotOlder)

\* A Check that sweeps leaves of the queues of the other subjects exactly
\* the timestamps that are at most window_size old.
SweepKeepsClosedWindow(u) ==
    CleanupDue(now, last_cleanup) =>
        \A v \in Users \ {u}, o \in Operations :
            UserQueue(user_operations, v, o)'
                = ClosedWindowOf(UserQueue(user_operations, v, o), now)

\* C23 as claimed: the window is the closed interval [now - window_size,
\* now]. A Check counts the timestamps that are at most window_size old,
\* the one exactly window_size old included, for the subject and for the
\* global window, and the sweep keeps the same timestamps.
C23_ClosedWindow ==
    [][\A u \in Users, o \in Operations :
          Called(u, o) =>
             LET n == Len(ClosedWindowOf(UserQueue(user_operations, u, o), now))
                 g == Len(ClosedWindowOf(GlobalQueue(global_operations, o), now))
                 L == ExpectedUserLimit(u, o)
                 G == ExpectedGlobalLimit(o)
                 r == last'.result
             IN  /\ n >= L => DeniedFor(r, "user_limit_exceeded")
                 /\ (n < L /\ g >= G) => DeniedFor(r, "global_limit_exceeded")
                 /\ (n < L /\ g < G) => r.allowed
                 /\ SweepKeepsClosedWindow(u)]_vars

\* C23 amended: a Check counts the timestamps strictly less than
\* window_size old, the window (now - window_size, now]; a timestamp exactly
\* window_size old counts neither for the subject nor globally. The sweep
\* removes the timestamps strictly more than window_size old, so it keeps a
\* timestamp exactly window_size old that no Check counts.
C23_HalfOpenWindow ==
    [][\A u \in Users, o \in Operations :
          Called(u, o) =>
             LET n == UserCount(u, o)
                 g == GlobalCount(o)
                 L == ExpectedUserLimit(u, o)
                 G == ExpectedGlobalLimit(o)
                 r == last'.result
             IN  /\ n >= L => DeniedFor(r, "user_limit_exceeded") /\ r.current_count = n
                 /\ (n < L /\ g >= G) =>
                        DeniedFor(r, "global_limit_exceeded") /\ r.current_count = g
                 /\ (n < L /\ g < G) => /\ r.allowed
                                        /\ r.user_remaining = L - n - 1
                                        /\ r.global_remaining = G - g - 1
                 /\ SweepKeepsClosedWindow(u)]_vars

\* A subject with a limit of one was allowed by a sweeping Check while its
\* queue held a timestamp exactly window_size old, which the sweep kept.
C23_Witness ==
    \E u \in Users, o \in Operations :
        /\ last.user = u /\ last.operation = o /\ last.time = now
        /\ last.result.allowed
        /\ last.result.user_limit = 1
        /\ last_cleanup = now
        /\ now >= cleanup_interval
        /\ UserQueue(user_operations, u, o) = <<now - window_size, now>>

\* The sizes of the entries of c under the keys given, added up.
SizeOfKeys(c, keys) == SumSizes(Restrict(c, keys))

\* The step is a round of the cleanup thread; the step is a Set that changed
\* the entries.
IsSweep == last_sweep' # last_sweep
IsSet == ~IsSweep /\ cache_last'.op = "set" /\ cache' # cache

\* C24: when a Set or a sweep evicts entries for memory (entries removed
\* that had not expired), every evicted entry was accessed no later than
\* every entry that stays, a Get hit counting as an access; each entry was
\* evicted while usedBytes was still above 0.8 * limitBytes, counting the
\* entries accessed before it as gone; and the eviction went on until
\* usedBytes was at or below that mark or nothing was left.
C24_EvictsLeastRecentlyAccessed ==
    [][(IsSweep \/ IsSet) =>
          LET Live == {k \in DOMAIN cache : ~(IsSweep /\ is_expired(cache[k], now))}
              Gone == Live \ DOMAIN cache'
              usage0 == memory_usage_bytes - SizeOfKeys(cache, DOMAIN cache \ Live)
              At(k) == AccessTimeOf(access_times, k)
              Earlier(e) == {x \in Gone : At(x) < At(e)}
          IN  Gone # {} =>
                 /\ \A e \in Gone, r \in Live \ Gone : At(e) <= At(r)
                 /\ \A e \in Gone :
                        10 * (usage0 - SizeOfKeys(cache, Earlier(e))) > 8 * max_memory_bytes
                 /\ \E e \in Gone :
                        10 * (usage0 - SizeOfKeys(cache, Gone \ {e})) > 8 * max_memory_bytes
                 /\ \/ 10 * (usage0 - SizeOfKeys(cache, Gone)) <= 8 * max_memory_bytes
                    \/ Live = Gone]_vars

\* A Set of a new key evicted one entry and kept an entry that had been
\* read after it was stored.
C24_Witness ==
    /\ cache_last.op = "set"
    /\ cache_last.outcome = "stored"
    /\ stats_added.evictions = 1
    /\ \E r \in DOMAIN cache :
           /\ r # cache_last.key
           /\ cache[r].created_time < AccessTimeOf(access_times, r)

\* The keys of the entries SpecCacheSwept sets.
CacheKeys == {KeyOf[content, cache_type] : content \in Contents, cache_type \in CacheTypes}

\* The clock of the model has reached its bound before the cleanup
\* thread's sleep is over.
ClockAtHorizon ==
    /\ TickCount(now) >= MaxCacheTicks
    /\ now < last_sweep + sweep_interval

\* The step is a Get that changed the entries.
IsGet == ~IsSweep /\ cache_last'.op = "get" /\ cache' # cache

\* C25: an entry whose expiry time has passed is eventually gone, or set
\* anew, with nothing but the clock and the cleanup thread certain to run
\* (unless the model's clock stops with no sweep made since the entry
\* expired and none due); a sweep adds to evictions the number of
\* entries it removes; and an entry without expiry time (TTL 0) is removed
\* by no Get, and by a sweep only to free memory, the usage without the
\* expired entries being above the limit.
C25_ExpiredEntriesSwept ==
    /\ \A k \in CacheKeys :
           (k \in DOMAIN cache /\ is_expired(cache[k], now))
               ~> (\/ k \notin DOMAIN cache
                   \/ ~is_expired(cache[k], now)
                   \/ ClockAtHorizon /\ ~is_expired(cache[k], last_sweep))
    /\ [][/\ IsSweep => stats_added'.evictions = Cardinality(DOMAIN cache \ DOMAIN cache')
          /\ \A k \in DOMAIN cache :
                 (cache[k].expiry_time = None /\ k \notin DOMAIN cache') =>
                     /\ ~IsGet
                     /\ IsSweep =>
                            LET expired == {x \in DOMAIN cache : is_expired(cache[x], now)}
                            IN  memory_usage_bytes - SizeOfKeys(cache, expired)
                                    > max_memory_bytes]_vars

\* The sweep has removed the entry of the latest Set, which no call has
\* touched since, and has kept an entry without expiry time. The entry
\* removed was accessed last, so it was not removed to free memory.
C25_Witness ==
    /\ last_sweep = now
    /\ cache_last.op = "set"
    /\ cache_last.outcome = "stored"
    /\ cache_last.key \notin DOMAIN cache
    /\ stats_added.evictions = 1
    /\ \E r \in DOMAIN cache : cache[r].expiry_time = None

\* C26: a reset of one subject, for one operation or for all, leaves that
\* subject with no timestamp in the window(s) reset and leaves the windows
\* of every other subject and every global window as they were; a reset of
\* a global window, one operation or all, leaves every subject's windows
\* as they were.
C26_ResetIsolation ==
    [][/\ \A u \in Users, o \in Operations \cup {NoOperation} :
             reset_user_limits(u, o) =>
                /\ \A x \in Operations : (o = x \/ o = NoOperation) => UserCount(u, x)' = 0
                /\ \A v \in Users \ {u}, x \in Operations :
                       UserWindow(v, x)' = UserWindow(v, x)
                /\ \A x \in Operations : GlobalWindow(x)' = GlobalWindow(x)
       /\ \A o \in Operations \cup {NoOperation} :
             reset_global_limits(o) =>
                \A v \in Users, x \in Operations : UserWindow(v, x)' = UserWindow(v, x)]_vars

\* One subject has nothing in its window after a reset while another
\* subject's window and the global window still hold their timestamps: the
\* global window holds more than the subjects' windows together.
C26_Witness ==
    \E u \in Users, v \in Users, o \in Operations :
        /\ u # v
        /\ UserCount(u, o) = 0
        /\ UserCount(v, o) > 0
        /\ GlobalCount(o) > UserCount(v, o)

\* The latest Check of (u, o) was denied for the subject's limit, the window
\* being exactly at the limit the subject has now, nothing of o has been
\* admitted since, and the global window of o has room.
DeniedAtLimit(u, o) ==
    LET d == denials[<<u, o>>]
    IN  /\ d.time # -1
        /\ d.reason = "user_limit_exceeded"
        /\ d.limit = ExpectedUserLimit(u, o)
        /\ d.current_count = d.limit
        /\ GlobalCount(o) < ExpectedGlobalLimit(o)

\* The time at which the oldest timestamp counted by the denial is no
\* longer counted.
RecoveryTime(u, o) == denials[<<u, o>>].time + denials[<<u, o>>].retry_after

\* C27 as claimed: the first Check of a subject denied at its limit, made
\* when the oldest timestamp counted has left the window, is allowed and
\* takes the only free slot, so that the next Check at that time is denied.
C27_OneSlotPerRecovery ==
    [][\A u \in Users, o \in Operations :
          (/\ Called(u, o)
           /\ DeniedAtLimit(u, o)
           /\ now >= RecoveryTime(u, o)) =>
             /\ last'.result.allowed
             /\ last'.result.user_remaining = 0
             /\ UserCount(u, o)' = ExpectedUserLimit(u, o)]_vars

\* C27 amended: a subject denied at its limit stays denied until the oldest
\* timestamp counted has left the window and is allowed by the first Check
\* from then on; that Check finds as many slots free as timestamps of the
\* subject have left the window, one if the others are still in it, and
\* takes one of them.
C27_SlidingRecovery ==
    [][\A u \in Users, o \in Operations :
          (Called(u, o) /\ DeniedAtLimit(u, o)) =>
             LET L == ExpectedUserLimit(u, o)
                 n == UserCount(u, o)
                 r == last'.result
             IN  /\ now < RecoveryTime(u, o) =>
                        DeniedFor(r, "user_limit_exceeded") /\ r.current_count = L
                 /\ now >= RecoveryTime(u, o) =>
                        /\ r.allowed
                        /\ n < L
                        /\ r.user_remaining = L - n - 1
                        /\ UserCount(u, o)' = n + 1]_vars

\* A subject with a limit of two is denied at a time at which it was
\* admitted, its queue holding a timestamp that has left the window, one
\* still in the window and the one just recorded: the Check that recorded
\* it found one slot free, and the next Check found none.
C27_Witness ==
    \E u \in Users, o \in Operations :
        /\ last.user = u /\ last.operation = o /\ last.time = now
        /\ DeniedFor(last.result, "user_limit_exceeded")
        /\ last.result.limit = 2
        /\ \E i, j, k \in 1..Len(UserQueue(user_operations, u, o)) :
               LET q == UserQueue(user_operations, u, o)
               IN  /\ q[i] <= now - window_size
                   /\ q[j] > now - window_size /\ q[j] < now
                   /\ q[k] = now

\* C28: a Set of a new key with a value of at most 0.2 * limitBytes is
\* stored, whatever the usage is.
C28_SmallSetNeverRejected ==
    [][\A content \in FillContents, cache_type \in CacheTypes :
           LET k == KeyOf[content, cache_type]
           IN  (/\ CacheReturned("set", k)
                /\ set(content, SmallValue, cache_type, None)
                /\ k \notin DOMAIN cache
                /\ 10 * calculate_size(SmallValue) <= 2 * max_memory_bytes) =>
                   cache_last'.outcome = "stored"]_vars

\* The in-window counts of the subjects given for operation o, added up.
RECURSIVE SumUserCounts(_, _)
SumUserCounts(o, us) ==
    IF us = {} THEN 0
    ELSE LET u == CHOOSE x \in us : TRUE
         IN  UserCount(u, o) + SumUserCounts(o, us \ {u})

\* C29: with no reset, in every state the global window of each operation
\* holds as many timestamps as the windows of all subjects together; an
\* admitted Check appends its time once to the subject's window and once to
\* the global window and changes no other window, and a denied Check
\* changes no window.
C29_GlobalIsSumOfSubjects ==
    /\ [](\A o \in Operations : GlobalCount(o) = SumUserCounts(o, Users))
    /\ [][\A u \in Users, o \in Operations :
             Called(u, o) =>
                /\ last'.result.allowed =>
                      /\ UserWindow(u, o)' = Append(UserWindow(u, o), now)
                      /\ GlobalWindow(o)' = Append(GlobalWindow(o), now)
                /\ ~last'.result.allowed =>
                      /\ UserWindow(u, o)' = UserWindow(u, o)
                      /\ GlobalWindow(o)' = GlobalWindow(o)
                /\ \A v \in Users \ {u} : UserWindow(v, o)' = UserWindow(v, o)]_vars

\* Both subjects have a timestamp in the window, the global window holds
\* the two, an older timestamp is stored outside the window, and the
\* latest Check was denied.
C29_Witness ==
    \E o \in Operations :
        /\ \A u \in Users : UserCount(u, o) = 1
        /\ GlobalCount(o) = 2
        /\ Len(GlobalQueue(global_operations, o)) > 2
        /\ last.time = now
        /\ ~last.result.allowed
        /\ last.operation = o

\* The operations the bot's handlers check, and the one a message is
\* checked for by its handler.
BotOperations == {"text_analysis", "url_analysis", "image_analysis"}
OwnOperation(message) ==
    IF message \in UrlMessages THEN "url_analysis"
    ELSE IF message \in PhotoMessages THEN "image_analysis"
    ELSE "text_analysis"

\* The number of timestamps of a queue equal to t.
CountAt(queue, t) == Cardinality({i \in 1..Len(queue) : queue[i] = t})

\* C30: one message consumes one quota unit. The step in which the handler
\* of a message has its Check allowed records one timestamp for the
\* message's own operation, in the subject's window and in the global
\* window, and none for another operation; no other step of the handling
\* records a timestamp for any operation.
C30_OneUnitPerMessage ==
    [][LET f == frame[1]
           own == OwnOperation(f.message)
           UserRecorded(o) == CountAt(UserQueue(user_operations, f.user, o)', now)
                                  - CountAt(UserQueue(user_operations, f.user, o), now)
           GlobalRecorded(o) == CountAt(GlobalQueue(global_operations, o)', now)
                                    - CountAt(GlobalQueue(global_operations, o), now)
           admitted == /\ pc[1] \in {"rate_check", "photo_check"}
                       /\ pc'[1] \notin {"rate_check", "photo_check", "idle"}
       IN  \A o \in BotOperations :
               LET units == IF admitted /\ o = own THEN 1 ELSE 0
               IN  UserRecorded(o) = units /\ GlobalRecorded(o) = units]_vars

====
